---- MODULE Spec2Model ----
(***************************************************************************)
(* Model of the research workflow orchestrator, its session store and its  *)
(* event bus (src/src/deep_research/services).                             *)
(*                                                                         *)
(* The module holds these state machines:                                  *)
(*   Spec      one orchestrator driving one session through planning,      *)
(*             plan review, the bounded fan-out of researcher tasks and    *)
(*             synthesis (orchestrator.py, with its callers in cli/main.py *)
(*             and api/routes/research.py);                                *)
(*   SpecApi   Spec together with the HTTP cancel request, which works on  *)
(*             its own copy of the session (api/routes/research.py);       *)
(*   SpecStore restore_from_checkpoint over a store of session rows and    *)
(*             checkpoints (session_manager.py);                           *)
(*   SpecBus   the event bus (event_bus.py).                               *)
(* asyncio runs one task at a time and switches only at an await, so every *)
(* action is the code between two suspension points.                       *)
(***************************************************************************)
EXTENDS Integers, Sequences, FiniteSets, TLC

(***************************************************************************)
(* Bounds of the model.                                                    *)
(***************************************************************************)
NItems == 3          \* plan items the planner returns
MaxMessages == 1     \* streaming messages of one researcher execution

Items == 1..NItems

\* settings.max_parallel_agents; kept below the number of items so that the
\* semaphore is contended.
MaxParallelAgents == NItems - 1

(***************************************************************************)
(* models/research.py: enumerations and the session object.                *)
(***************************************************************************)
NormalPhases == <<"planning", "plan_review", "researching", "synthesizing", "completed">>
TerminalPhases == {"completed", "failed", "cancelled"}
ResearchPhase == {"planning", "plan_review", "researching", "synthesizing"} \cup TerminalPhases

None == "None"

\* "No session": what get_session, find_session_by_prefix and
\* restore_from_checkpoint return for an unknown id.
NoSession == [missing |-> TRUE]

\* A plan is its items' statuses; "absent" marks an id that is no item of the
\* plan, and a session without plan has no item at all.
NoPlan == [i \in Items |-> "absent"]
NoProgress == [i \in Items |-> [status |-> "none", pct |-> 0]]

OrchId == <<1, 1>>

\* ResearchSession(user_query=..., phase=PLANNING)
NewSession(id, now) ==
    [session_id |-> id, phase |-> "planning", plan |-> NoPlan,
     agent_progress |-> NoProgress, agent_results |-> <<>>,
     final_report |-> None, error |-> None, created_at |-> now]

\* ResearchSession.update_phase
UpdatePhase(s, p) == [s EXCEPT !.phase = p]

\* ResearchPlan.update_item_status: ids that are no item of the plan are ignored.
UpdateItemStatus(plan, i, st) ==
    IF plan[i] = "absent" THEN plan ELSE [plan EXCEPT ![i] = st]

\* ResearchPlan.get_pending_items
GetPendingItems(plan) == {i \in Items : plan[i] = "pending"}

\* ResearchSession.update_agent_progress
UpdateAgentProgress(s, i, st, pct) ==
    [s EXCEPT !.agent_progress[i] = [status |-> st, pct |-> pct]]

\* Mutant: the result replaces the list.
AddAgentResult_Overwrites(s, r) == [s EXCEPT !.agent_results = <<r>>]

\* ResearchSession.add_agent_result
AddAgentResult(s, r) == [s EXCEPT !.agent_results = Append(@, r)]

(***************************************************************************)
(* session_manager.py: the sessions table.                                 *)
(***************************************************************************)
\* The columns written by INSERT and UPDATE.
SessionToRow(s) ==
    [session_id |-> s.session_id, phase |-> s.phase, plan_json |-> s.plan,
     agent_progress_json |-> s.agent_progress,
     agent_results_json |-> s.agent_results,
     final_report |-> s.final_report, error |-> s.error,
     created_at |-> s.created_at]

RowToSession(r) ==
    [session_id |-> r.session_id, phase |-> r.phase, plan |-> r.plan_json,
     agent_progress |-> r.agent_progress_json,
     agent_results |-> r.agent_results_json,
     final_report |-> r.final_report, error |-> r.error,
     created_at |-> r.created_at]

\* INSERT INTO sessions
CreateSession(tbl, s) ==
    [id \in DOMAIN tbl \cup {s.session_id} |->
        IF id = s.session_id THEN SessionToRow(s) ELSE tbl[id]]

\* UPDATE sessions SET ... WHERE session_id = ?: every column but the key and
\* created_at is overwritten by the caller's copy; no row, no effect.
UpdateSession(tbl, s) ==
    IF s.session_id \in DOMAIN tbl
    THEN [tbl EXCEPT ![s.session_id] =
            [SessionToRow(s) EXCEPT !.created_at = tbl[s.session_id].created_at]]
    ELSE tbl

(***************************************************************************)
(* State.                                                                  *)
(***************************************************************************)
VARIABLES
    sessions,     \* the sessions table: session id -> row
    checkpoints,  \* the checkpoints table, in insertion order
    pc,           \* where the orchestrator's caller stands in the workflow
    session,      \* the orchestrator's in-memory ResearchSession
    wpc,          \* researcher task of each item: its position
    sessionLock,  \* ResearchOrchestrator._session_lock: the set of its holders
    checkpointTask, \* ResearchOrchestrator._checkpoint_task is set
    cancelled,    \* ResearchOrchestrator._cancelled
    cpPc,         \* where the coroutine checkpoint_loop stands: "none", "sleep",
                  \* "save", "saving", "publish", "ended"
    pendingSave,  \* the checkpoint that save_checkpoint has handed to the
                  \* database connection and that is not committed yet
    saveWarnings, \* the number of "Failed to save checkpoint" warnings that
                  \* checkpoint_loop has logged
    emitted,      \* per plan item, how far the events its researcher has
                  \* published are in the order agent_started, agent_progress
                  \* ..., agent_completed or agent_failed: "none", "started"
                  \* (with any number of agent_progress since), the
                  \* terminal event, or "disorder" once an event was
                  \* published out of that order
    sessionEvents, \* the checkpoint_saved events published
    phaseEvent,   \* the last phase_change event the orchestrator published
    planCall,     \* the run_planning_phase call in progress, or the last
                  \* one while the user has not decided on its plan: the
                  \* session's phase and row when it was invoked, and
                  \* whether it has published a PlanDraftEvent
    apiPc,        \* the cancel request: "idle", "read", "done", "rejected"
    apiSession,   \* the cancel request's copy of the session
    restoreArg,   \* the id or prefix of the last restore_from_checkpoint call
    restored,     \* what that call returned
    cleaned,      \* the last cleanup_old_checkpoints call: its arguments and
                  \* the number it returned
    globalHandlers,   \* EventBus._global_handlers
    sessionHandlers,  \* EventBus._session_handlers
    sessionQueues,    \* EventBus._session_queues
    pub,              \* the publish call in progress
    handles,          \* the unsubscribe functions handed out and not yet called
    unsubscribed,     \* the subscriptions the last unsubscribe call was for,
                      \* less those subscribed again since
    sharedStreams,    \* the sessions whose queue a repeated
                      \* create_session_stream call has returned with
                      \* events pending in it
    released,         \* the session of the last close_session_stream call
                      \* that found a queue and handlers, with those
                      \* handlers, and whether an event of the session was
                      \* published since
    overflow          \* the last session a full queue dropped an event of,
                      \* and what happened to its queue since

loopVars == <<cancelled, cpPc, pendingSave, saveWarnings>>
eventVars == <<emitted, sessionEvents, phaseEvent>>
orchVars == <<pc, session, wpc, sessionLock, checkpointTask, loopVars, eventVars, planCall>>
apiVars == <<apiPc, apiSession>>
storeVars == <<sessions, checkpoints>>
\* What no step of the orchestrator touches.
streamLog == <<sharedStreams, overflow>>
busVars == <<globalHandlers, sessionHandlers, sessionQueues, pub, unsubscribed, streamLog,
             released, handles>>
extVars == <<apiPc, apiSession, restoreArg, restored, cleaned, busVars>>
restoreVars == <<restoreArg, restored, cleaned>>

NoTasks == [i \in Items |-> "none"]

\* The row of the orchestrator's session, as a session (SessionManager.get_session).
GetSession(tbl, id) == IF id \in DOMAIN tbl THEN RowToSession(tbl[id]) ELSE NoSession

(***************************************************************************)
(* session_manager.py: checkpoints and restore_from_checkpoint.            *)
(***************************************************************************)
NoCheckpoint == [missing_checkpoint |-> TRUE]
NotCalled == [not_called |-> TRUE]

\* `len(session_id) < 36`: the length of a full session id, which is 2 for
\* the ids of this model.
UuidLen == 2

\* _PHASE_ORDER
PhaseOrder(p) ==
    CASE p = "planning" -> 0
      [] p = "plan_review" -> 1
      [] p = "researching" -> 2
      [] p = "synthesizing" -> 3
      [] p \in {"completed", "failed", "cancelled"} -> 4
      [] OTHER -> 0

\* ResearchSession.to_checkpoint
ToCheckpoint(s, now) ==
    [session_id |-> s.session_id, phase |-> s.phase, plan |-> s.plan,
     agent_results |-> s.agent_results, checkpoint_time |-> now]

\* ResearchSession.from_checkpoint
FromCheckpoint(cp) ==
    [session_id |-> cp.session_id, phase |-> cp.phase, plan |-> cp.plan,
     agent_progress |-> NoProgress, agent_results |-> cp.agent_results,
     final_report |-> None, error |-> None, created_at |-> cp.checkpoint_time]

\* Mutant: the session keeps one checkpoint row, which each save replaces.
SaveCheckpoint_Replace(cps, s, now) ==
    Append(SelectSeq(cps, LAMBDA row : row.session_id # s.session_id),
           [session_id |-> s.session_id,
            checkpoint_json |-> ToCheckpoint(s, now),
            created_at |-> now])

\* INSERT INTO checkpoints
SaveCheckpoint(cps, s, now) ==
    Append(cps, [session_id |-> s.session_id,
                 checkpoint_json |-> ToCheckpoint(s, now),
                 created_at |-> now])

IsPrefix(p, id) == Len(p) <= Len(id) /\ SubSeq(id, 1, Len(p)) = p

\* find_session_by_prefix: LIKE 'prefix%' ORDER BY created_at DESC, first row.
FindSessionByPrefix(tbl, prefix) ==
    LET match == {id \in DOMAIN tbl : IsPrefix(prefix, id)}
    IN IF match = {} THEN NoSession
       ELSE RowToSession(tbl[CHOOSE id \in match :
                \A other \in match : tbl[other].created_at <= tbl[id].created_at])

\* get_latest_checkpoint: ORDER BY created_at DESC LIMIT 1.
GetLatestCheckpoint(cps, id) ==
    LET mine == {k \in 1..Len(cps) : cps[k].session_id = id}
    IN IF mine = {} THEN NoCheckpoint
       ELSE cps[CHOOSE k \in mine :
                \A j \in mine : cps[j].created_at <= cps[k].created_at].checkpoint_json

\* Mutant: only a terminal phase makes the row authoritative.
IsAuthoritative_TerminalOnly(s) == s.phase \in TerminalPhases

\* `session.phase in (COMPLETED, FAILED, CANCELLED) or session.final_report`
IsAuthoritative(s) ==
    \/ s.phase \in TerminalPhases
    \/ (s.final_report # None /\ s.final_report # "")

\* Mutant: the checkpoint's phase is always kept.
Reconcile_CheckpointPhase(s, cp) ==
    [FromCheckpoint(cp) EXCEPT !.final_report = s.final_report, !.error = s.error]

\* The session rebuilt from the checkpoint, with the row's report and error,
\* and the row's phase when it is the more advanced one.
Reconcile(s, cp) ==
    LET r == [FromCheckpoint(cp) EXCEPT !.final_report = s.final_report,
                                        !.error = s.error]
    IN IF PhaseOrder(s.phase) > PhaseOrder(cp.phase)
       THEN [r EXCEPT !.phase = s.phase]
       ELSE r

\* The session the id or prefix resolves to.
ResolveSession(tbl, q) ==
    IF Len(q) < UuidLen THEN FindSessionByPrefix(tbl, q) ELSE GetSession(tbl, q)

\* Mutant: a session without checkpoint cannot be restored.
RestoreFromCheckpoint_NeedsCheckpoint(tbl, cps, q) ==
    LET s == ResolveSession(tbl, q)
    IN IF s = NoSession THEN NoSession
       ELSE IF IsAuthoritative(s) THEN s
       ELSE LET cp == GetLatestCheckpoint(cps, s.session_id)
            IN IF cp # NoCheckpoint THEN Reconcile(s, cp) ELSE NoSession

\* restore_from_checkpoint
RestoreFromCheckpoint(tbl, cps, q) ==
    LET s == ResolveSession(tbl, q)
    IN IF s = NoSession THEN NoSession
       ELSE IF IsAuthoritative(s) THEN s
       ELSE LET cp == GetLatestCheckpoint(cps, s.session_id)
            IN IF cp # NoCheckpoint THEN Reconcile(s, cp) ELSE s

\* The ids and prefixes a caller passes.
OtherId == <<1, 2>>
Queries == {<<>>, <<1>>, <<2>>, <<1, 1>>, <<1, 2>>, <<2, 1>>}

\* A call of restore_from_checkpoint: it reads the tables and writes nothing,
\* so a second call would see what the first saw and one call is followed.
Restore(q) ==
    /\ restored = NotCalled
    /\ restoreArg' = q
    /\ restored' = RestoreFromCheckpoint(sessions, checkpoints, q)
    /\ UNCHANGED <<cleaned, orchVars, storeVars, apiVars, busVars>>

(***************************************************************************)
(* orchestrator.py: start, planning, confirmation.                         *)
(***************************************************************************)
\* No phase_change event published yet.
NoPhaseEvent == [old_phase |-> "none", new_phase |-> "none"]

\* _emit_phase_change(session, old_phase, new_phase): the event carries the
\* two phases the caller passes.
PhaseChangeEvent(s, old, new) == [old_phase |-> old, new_phase |-> new]

\* start_research
StartResearch ==
    /\ pc = "new"
    /\ session' = NewSession(OrchId, 1)
    /\ sessions' = CreateSession(sessions, session')
    /\ pc' = "started"
    /\ UNCHANGED <<wpc, sessionLock, checkpointTask, checkpoints, extVars, loopVars, eventVars, planCall>>

\* No run_planning_phase call yet.
NoCall == [phase |-> "none", row |-> NoSession, plan_draft |-> FALSE]

\* A run_planning_phase call is entered with the session in `phase` and its
\* row being `row`.
EnterPlanning(phase, row) == [phase |-> phase, row |-> row, plan_draft |-> FALSE]

\* run_planning_phase up to the planner call: the phase is set in memory only.
PlanningBegin ==
    /\ pc \in {"started", "cli_started"}
    /\ planCall' = EnterPlanning(session.phase, sessions[OrchId])
    /\ session' = UpdatePhase(session, "planning")
    /\ pc' = IF pc = "started" THEN "plan_exec" ELSE "cli_plan_exec"
    /\ phaseEvent' = PhaseChangeEvent(session, None, "planning")
    /\ UNCHANGED <<wpc, sessionLock, checkpointTask, sessions, checkpoints, extVars, loopVars, emitted, sessionEvents>>

\* The planner fails, or its answer cannot be parsed: run_planning_phase raises.
\* In a planning call that follows clarification answers or feedback the
\* caller is cli/main.py, which reports the error and exits.
PlanningRaise ==
    /\ pc \in {"plan_exec", "cli_plan_exec"}
    /\ pc' = IF pc = "plan_exec" THEN "plan_failed" ELSE "cli_plan_failed"
    /\ UNCHANGED <<session, wpc, sessionLock, checkpointTask, sessions, checkpoints, extVars, loopVars, eventVars, planCall>>

\* The planner asks clarification questions: run_planning_phase returns them
\* and persists nothing. The caller (cli/main.py) appends the answers, saves
\* the session and invokes run_planning_phase again.
PlanningClarify ==
    /\ pc \in {"plan_exec", "cli_plan_exec"}
    /\ sessions' = UpdateSession(sessions, session)
    /\ pc' = "cli_started"
    /\ UNCHANGED <<session, wpc, sessionLock, checkpointTask, checkpoints, extVars, loopVars, eventVars, planCall>>

\* The plan parsed from the planner's answer: every item pending.
DraftedPlan(plan) == [i \in Items |-> "pending"]

\* A complete plan: session.plan is set and the session saved, its phase
\* still the one set by PlanningBegin; then the PlanDraftEvent is published.
PlanningDraft ==
    /\ pc \in {"plan_exec", "cli_plan_exec"}
    /\ session' = [session EXCEPT !.plan = DraftedPlan(@)]
    /\ sessions' = UpdateSession(sessions, session')
    /\ planCall' = [planCall EXCEPT !.plan_draft = TRUE]
    /\ pc' = "plan_draft"
    /\ UNCHANGED <<wpc, sessionLock, checkpointTask, checkpoints, extVars, loopVars, eventVars>>

\* ... then the phase moves to plan review and the session is saved again.
PlanningToReview ==
    /\ pc = "plan_draft"
    /\ session' = UpdatePhase(session, "plan_review")
    /\ sessions' = UpdateSession(sessions, session')
    /\ pc' = "review"
    /\ phaseEvent' = PhaseChangeEvent(session, "planning", "plan_review")
    /\ UNCHANGED <<wpc, sessionLock, checkpointTask, checkpoints, extVars, loopVars, emitted, sessionEvents, planCall>>

\* cli/main.py, feedback on the plan: the session is saved, the plan dropped
\* and run_planning_phase invoked again, which sets the phase in memory.
Replan ==
    /\ pc = "review"
    /\ sessions' = UpdateSession(sessions, session)
    /\ planCall' = EnterPlanning(session.phase, sessions'[OrchId])
    /\ session' = UpdatePhase([session EXCEPT !.plan = NoPlan], "planning")
    /\ pc' = "cli_plan_exec"
    /\ phaseEvent' = PhaseChangeEvent(session, None, "planning")
    /\ UNCHANGED <<wpc, sessionLock, checkpointTask, checkpoints, extVars, loopVars, emitted, sessionEvents>>

\* cli/main.py, the plan is declined: the caller marks the session cancelled.
DeclinePlan ==
    /\ pc = "review"
    /\ session' = UpdatePhase(session, "cancelled")
    /\ sessions' = UpdateSession(sessions, session')
    /\ pc' = "declined"
    /\ planCall' = NoCall
    /\ UNCHANGED <<wpc, sessionLock, checkpointTask, checkpoints, extVars, loopVars, eventVars>>

\* Mutant: the skip list is ignored.
ConfirmedPlan_IgnoresSkip(plan, mods, skip) ==
    IF mods = {} THEN plan
    ELSE [i \in Items |-> IF i \in mods THEN "pending" ELSE "absent"]

\* The plan after confirm_plan: `mods`, when given, replaces the item list by
\* freshly built (pending) items; then every id of `skip` is marked skipped.
ConfirmedPlan(plan, mods, skip) ==
    LET base == IF mods = {} THEN plan
                ELSE [i \in Items |-> IF i \in mods THEN "pending" ELSE "absent"]
        RECURSIVE Mark(_, _)
        Mark(p, ids) ==
            IF ids = {} THEN p
            ELSE LET i == CHOOSE x \in ids : TRUE
                 IN Mark(UpdateItemStatus(p, i, "skipped"), ids \ {i})
    IN Mark(base, skip)

\* confirm_plan(session, modifications, skip_items)
ConfirmPlan(mods, skip) ==
    /\ pc = "review"
    /\ session' = [session EXCEPT !.plan = ConfirmedPlan(@, mods, skip)]
    /\ sessions' = UpdateSession(sessions, session')
    /\ pc' = "confirmed"
    /\ planCall' = NoCall
    /\ UNCHANGED <<wpc, sessionLock, checkpointTask, checkpoints, extVars, loopVars, eventVars>>

(***************************************************************************)
(* orchestrator.py: the research phase.                                    *)
(***************************************************************************)
\* What a researcher execution can end in: a successful result, a result
\* with success = False (a failure or a timeout of the executor, raised as
\* RuntimeError at once), or an exception out of the call or the parser.
Outcomes == {"ok", "fail", "raise"}

\* Mutant: `except RuntimeError`, which lets other exceptions end the task.
ExceptCatches_RuntimeErrorOnly(kind) == kind = "fail"

\* `except Exception` of _run_single_researcher catches every failure.
ExceptCatches(kind) == kind \in {"fail", "raise"}

\* asyncio.gather(*tasks, return_exceptions=True)
GatherReturnExceptions == TRUE

\* Mutant: a task keeps its permit when it is done.
HoldsPermit_NeverReleased(w) == {i \in Items : w[i] \notin {"none", "wait"}}

\* Tasks inside `async with semaphore`.
HoldsPermit(w) == {i \in Items : w[i] \in {"exec", "lock_ok", "lock_fail", "in_ok", "in_fail"}}

\* Mutant: the tasks are not gated by the semaphore.
SemaphoreFree_Ungated(w) == TRUE

\* asyncio.Semaphore(settings.max_parallel_agents) has a free permit.
SemaphoreFree(w) == Cardinality(HoldsPermit(w)) < MaxParallelAgents

\* _parse_researcher_response on free-form output: default confidence 0.8 (in tenths).
ParsedResult(i) == [plan_item_id |-> i, confidence |-> 8, findings |-> "content"]

\* Mutant: the failed result keeps the default confidence of AgentResult.
FailedResult_DefaultConfidence(i) ==
    [plan_item_id |-> i, confidence |-> 8, findings |-> "Research failed: error"]

\* The result built for a failed researcher.
FailedResult(i) == [plan_item_id |-> i, confidence |-> 0, findings |-> "Research failed: error"]

\* Mutant: a failed researcher leaves no result.
CommitResult_SuccessOnly(s, i, ok) ==
    IF ok THEN AddAgentResult(s, ParsedResult(i)) ELSE s

\* The critical section: the result is appended to the session in memory.
CommitResult(s, i, ok) ==
    AddAgentResult(s, IF ok THEN ParsedResult(i) ELSE FailedResult(i))

\* _stop_checkpoint_task: `if self._checkpoint_task: self._checkpoint_task.
\* cancel()`.  The cancelled task is resumed with CancelledError at the await
\* it stands at, which no clause of checkpoint_loop catches: it ends there.
StopCheckpointTask(task, at) ==
    IF task /\ at \in {"sleep", "save", "saving", "publish"} THEN "ended" ELSE at

\* run_research_phase up to gather: the phase is set and saved, the
\* checkpoint task started (its loop ends at once when the orchestrator is
\* cancelled) and one task created per pending item.
ResearchBegin ==
    /\ pc = "confirmed"
    /\ session' = UpdatePhase(session, "researching")
    /\ sessions' = UpdateSession(sessions, session')
    /\ checkpointTask' = TRUE
    /\ cpPc' = IF cancelled THEN "ended" ELSE "sleep"
    /\ wpc' = [i \in Items |->
                 IF i \in GetPendingItems(session.plan) THEN "wait" ELSE "none"]
    /\ pc' = "fanout"
    /\ phaseEvent' = PhaseChangeEvent(session, "plan_review", "researching")
    /\ UNCHANGED <<sessionLock, checkpoints, extVars, cancelled, pendingSave, saveWarnings, emitted, sessionEvents,
                   planCall>>

\* What an item's events are after the publish of event e.
EventOrder(at, e) ==
    CASE e = "agent_started" -> IF at = "none" THEN "started" ELSE "disorder"
      [] e = "agent_progress" -> IF at = "started" THEN "started" ELSE "disorder"
      [] e \in {"agent_completed", "agent_failed"} ->
            IF at = "started" THEN e ELSE "disorder"
      [] OTHER -> at

\* Mutant: a failed researcher publishes no event.
TerminalEvent_SuccessOnly(ok) == IF ok THEN "agent_completed" ELSE "nothing"

\* AgentCompletedEvent after the try block's save, AgentFailedEvent after
\* the except block's.
TerminalEvent(ok) == IF ok THEN "agent_completed" ELSE "agent_failed"

\* A task enters the semaphore: the item is in progress, its progress record
\* running, the AgentStartedEvent published and the researcher invoked.
WorkerStart(i) ==
    /\ pc = "fanout"
    /\ wpc[i] = "wait"
    /\ SemaphoreFree(wpc)
    /\ session' = UpdateAgentProgress(
                     [session EXCEPT !.plan = UpdateItemStatus(@, i, "in_progress")],
                     i, "running", 0)
    /\ emitted' = [emitted EXCEPT ![i] = EventOrder(@, "agent_started")]
    /\ wpc' = [wpc EXCEPT ![i] = "exec"]
    /\ UNCHANGED <<pc, sessionLock, checkpointTask, sessions, checkpoints, extVars, loopVars,
                   sessionEvents, phaseEvent, planCall>>

Min(a, b) == IF a < b THEN a ELSE b

\* on_message: the shared progress record advances by 5, capped at 90, and
\* an AgentProgressEvent is published.
WorkerMessage(i) ==
    /\ wpc[i] = "exec"
    /\ session.agent_progress[i].pct < 5 * MaxMessages
    /\ session' = UpdateAgentProgress(session, i, "running",
                                      Min(session.agent_progress[i].pct + 5, 90))
    /\ emitted' = [emitted EXCEPT ![i] = EventOrder(@, "agent_progress")]
    /\ UNCHANGED <<pc, wpc, sessionLock, checkpointTask, sessions, checkpoints, extVars, loopVars,
                   sessionEvents, phaseEvent, planCall>>

\* The execution ends. On success the progress record and the item are marked
\* completed, on a caught failure failed; the task then waits for the session
\* lock. An exception that is not caught ends the task.
WorkerFinish(i) ==
    /\ wpc[i] = "exec"
    /\ \E kind \in Outcomes :
         IF kind = "ok"
         THEN /\ session' = [UpdateAgentProgress(session, i, "completed", 100)
                               EXCEPT !.plan = UpdateItemStatus(@, i, "completed")]
              /\ wpc' = [wpc EXCEPT ![i] = "lock_ok"]
         ELSE IF ExceptCatches(kind)
         THEN /\ session' = [UpdateAgentProgress(session, i, "failed",
                                                 session.agent_progress[i].pct)
                               EXCEPT !.plan = UpdateItemStatus(@, i, "failed")]
              /\ wpc' = [wpc EXCEPT ![i] = "lock_fail"]
         ELSE /\ wpc' = [wpc EXCEPT ![i] = "crashed"]
              /\ UNCHANGED session
    /\ UNCHANGED <<pc, sessionLock, checkpointTask, sessions, checkpoints, extVars, loopVars, eventVars, planCall>>

\* The task takes the session lock, appends its result and saves the session.
WorkerCommit(i) ==
    /\ wpc[i] \in {"lock_ok", "lock_fail"}
    /\ sessionLock = {}
    /\ sessionLock' = {i}
    /\ session' = CommitResult(session, i, wpc[i] = "lock_ok")
    /\ sessions' = UpdateSession(sessions, session')
    /\ wpc' = [wpc EXCEPT ![i] = IF wpc[i] = "lock_ok" THEN "in_ok" ELSE "in_fail"]
    /\ UNCHANGED <<pc, checkpointTask, checkpoints, extVars, loopVars, eventVars, planCall>>

\* The save is done: the lock is released, the event published, the result
\* returned and the permit given back.
WorkerReturn(i) ==
    /\ wpc[i] \in {"in_ok", "in_fail"}
    /\ sessionLock' = {}
    /\ emitted' = [emitted EXCEPT ![i] = EventOrder(@, TerminalEvent(wpc[i] = "in_ok"))]
    /\ wpc' = [wpc EXCEPT ![i] = IF wpc[i] = "in_ok" THEN "done_ok" ELSE "done_fail"]
    /\ UNCHANGED <<pc, session, checkpointTask, sessions, checkpoints, extVars, loopVars,
                   sessionEvents, phaseEvent, planCall>>

\* Mutant: the wait ends with the first task that is done.
GatherDone_FirstCompleted(w) ==
    \/ \A i \in Items : w[i] = "none"
    \/ \E i \in Items : w[i] \in {"done_ok", "done_fail", "crashed"}

\* `await asyncio.gather(*tasks, ...)` is over: every task is done.
GatherDone(w) == \A i \in Items : w[i] \in {"none", "done_ok", "done_fail", "crashed"}

\* gather has every task's outcome: the checkpoint task is stopped (finally)
\* and run_research_phase returns, or raises what gather raised.
ResearchReturn ==
    /\ pc = "fanout"
    /\ GatherDone(wpc)
    /\ checkpointTask' = FALSE
    /\ cpPc' = StopCheckpointTask(checkpointTask, cpPc)
    /\ pc' = IF (\E i \in Items : wpc[i] = "crashed") /\ ~GatherReturnExceptions
             THEN "research_raised" ELSE "researched"
    /\ UNCHANGED <<session, wpc, sessionLock, sessions, checkpoints, extVars, cancelled,
                   pendingSave, saveWarnings, eventVars, planCall>>

(***************************************************************************)
(* orchestrator.py: synthesis, and the callers' failure handling.          *)
(***************************************************************************)
\* run_synthesis_phase up to the synthesizer call.
SynthesisBegin ==
    /\ pc = "researched"
    /\ session' = UpdatePhase(session, "synthesizing")
    /\ sessions' = UpdateSession(sessions, session')
    /\ pc' = "synth_exec"
    /\ phaseEvent' = PhaseChangeEvent(session, "researching", "synthesizing")
    /\ UNCHANGED <<wpc, sessionLock, checkpointTask, checkpoints, extVars, loopVars, emitted, sessionEvents, planCall>>

\* What a successful execution hands back as content: the joined text of the
\* messages, which is empty when there was none.
ReportContents == {"report", ""}

\* Mutant: the phase is saved before the report is set.
SynthesisOk_PhaseBeforeReport ==
    /\ pc = "synth_exec"
    /\ \E content \in ReportContents :
         session' = UpdatePhase([session EXCEPT !.final_report = content], "completed")
    /\ sessions' = UpdateSession(sessions, UpdatePhase(session, "completed"))
    /\ pc' = "completed"
    /\ phaseEvent' = PhaseChangeEvent(session, "synthesizing", "completed")
    /\ UNCHANGED <<wpc, sessionLock, checkpointTask, checkpoints, extVars, loopVars, emitted, sessionEvents, planCall>>

\* The synthesizer succeeds: report and phase are stored by one save.
SynthesisOk ==
    /\ pc = "synth_exec"
    /\ \E content \in ReportContents :
         session' = UpdatePhase([session EXCEPT !.final_report = content], "completed")
    /\ sessions' = UpdateSession(sessions, session')
    /\ pc' = "completed"
    /\ phaseEvent' = PhaseChangeEvent(session, "synthesizing", "completed")
    /\ UNCHANGED <<wpc, sessionLock, checkpointTask, checkpoints, extVars, loopVars, emitted, sessionEvents, planCall>>

\* The synthesizer fails: run_synthesis_phase raises.
SynthesisRaise ==
    /\ pc = "synth_exec"
    /\ pc' = "synth_failed"
    /\ UNCHANGED <<session, wpc, sessionLock, checkpointTask, sessions, checkpoints, extVars, loopVars, eventVars, planCall>>

\* Mutant: the failed session is saved without its results.
MarkFailed_DropsResults ==
    /\ pc \in {"synth_failed", "research_raised"}
    /\ session' = UpdatePhase([session EXCEPT !.error = "error", !.agent_results = <<>>],
                              "failed")
    /\ sessions' = UpdateSession(sessions, session')
    /\ pc' = "failed_marked"
    /\ UNCHANGED <<wpc, sessionLock, checkpointTask, checkpoints, extVars, loopVars, eventVars, planCall>>

\* The caller's except clause around research and synthesis (run_full_workflow,
\* the background tasks of the confirm and resume routes): the session is
\* marked failed and saved.
MarkFailed ==
    /\ pc \in {"synth_failed", "research_raised"}
    /\ session' = UpdatePhase([session EXCEPT !.error = "error"], "failed")
    /\ sessions' = UpdateSession(sessions, session')
    /\ pc' = "failed_marked"
    /\ UNCHANGED <<wpc, sessionLock, checkpointTask, checkpoints, extVars, loopVars, eventVars, planCall>>

\* run_full_workflow's except clause around planning.
MarkPlanningFailed ==
    /\ pc = "plan_failed"
    /\ session' = UpdatePhase([session EXCEPT !.error = "error"], "failed")
    /\ sessions' = UpdateSession(sessions, session')
    /\ pc' = "plan_failed_marked"
    /\ UNCHANGED <<wpc, sessionLock, checkpointTask, checkpoints, extVars, loopVars, eventVars, planCall>>

(***************************************************************************)
(* api/routes/research.py: the confirm and the cancel request.             *)
(***************************************************************************)
\* confirm_plan of the API: the session is read from its row, refused unless
\* its phase is plan_review, confirmed and handed to a new orchestrator.
ApiConfirmPlan ==
    /\ pc = "review"
    /\ OrchId \in DOMAIN sessions
    /\ sessions[OrchId].phase = "plan_review"
    /\ \E mods \in SUBSET Items, skip \in SUBSET Items :
         /\ session' = [GetSession(sessions, OrchId)
                           EXCEPT !.plan = ConfirmedPlan(@, mods, skip)]
         /\ sessions' = UpdateSession(sessions, session')
    /\ pc' = "confirmed"
    /\ planCall' = NoCall
    /\ UNCHANGED <<wpc, sessionLock, checkpointTask, checkpoints, extVars, loopVars, eventVars>>

\* cancel_session reads the session; a missing row is a 404 and a terminal
\* phase a 400.
CancelRead ==
    /\ apiPc = "idle"
    /\ OrchId \in DOMAIN sessions
    /\ IF sessions[OrchId].phase \in TerminalPhases
       THEN /\ apiPc' = "rejected"
            /\ UNCHANGED apiSession
       ELSE /\ apiPc' = "read"
            /\ apiSession' = GetSession(sessions, OrchId)
    /\ UNCHANGED <<orchVars, storeVars, restoreVars, busVars>>

\* ... then marks its copy cancelled and saves it.
CancelWrite ==
    /\ apiPc = "read"
    /\ apiSession' = UpdatePhase(apiSession, "cancelled")
    /\ sessions' = UpdateSession(sessions, apiSession')
    /\ apiPc' = "done"
    /\ UNCHANGED <<orchVars, checkpoints, restoreVars, busVars>>

(***************************************************************************)
(* event_bus.py                                                            *)
(***************************************************************************)
MaxSubscriptions == 2  \* subscriptions alive at a time
QueueMaxSize == 1      \* max_size of a session stream

\* The handler functions that get subscribed.
Handlers == {"h1", "h2"}
EventTypes == {"phase_change", "agent_progress"}
\* "s1" is a session with listeners; "s2" is a session nobody listens to.
SessionIds == {"s1", "s2"}
Listened == {"s1"}
Global == "global"
Events == [event_type : EventTypes, session_id : SessionIds]

\* What the call of a handler does: it returns, raises an Exception, or
\* raises a BaseException that is no Exception (asyncio.CancelledError).
HandlerOutcomes == {"returns", "exception", "cancelled_error"}

NoHandlers == [t \in EventTypes |-> {}]
NoRelease == [session_id |-> None, handlers |-> {}, published |-> FALSE]
NoOverflow == [session_id |-> None, stage |-> "none"]
NoPublish == [pc |-> "idle", event |-> None, handlers |-> {}, pending |-> {}, raised |-> {}]

\* EventBus.__init__
NewEventBus ==
    /\ globalHandlers = NoHandlers
    /\ sessionHandlers = [s \in SessionIds |-> NoHandlers]
    /\ sessionQueues = <<>>
    /\ pub = NoPublish
    /\ unsubscribed = {}
    /\ sharedStreams = {}
    /\ overflow = NoOverflow
    /\ released = NoRelease
    /\ handles = {}

Subscriptions ==
    Cardinality({<<t, h>> \in EventTypes \X Handlers : h \in globalHandlers[t]})
    + Cardinality({<<s, t, h>> \in SessionIds \X EventTypes \X Handlers :
                      h \in sessionHandlers[s][t]})

\* The subscriptions a caller asks for: a scope (a session id or none), an
\* event type and a handler.
Scopes == Listened \cup {Global}
Slots == Scopes \X EventTypes \X Handlers

Registered(s, t, h) ==
    IF s = Global THEN h \in globalHandlers[t] ELSE h \in sessionHandlers[s][t]

\* handlers[...].add(handler) for every given event type
AddHandler(s, types, h) ==
    IF s = Global
    THEN /\ globalHandlers' = [t \in EventTypes |->
                IF t \in types THEN globalHandlers[t] \cup {h} ELSE globalHandlers[t]]
         /\ UNCHANGED sessionHandlers
    ELSE /\ sessionHandlers' = [sessionHandlers EXCEPT ![s] = [t \in EventTypes |->
                IF t \in types THEN @[t] \cup {h} ELSE @[t]]]
         /\ UNCHANGED globalHandlers

\* Mutant: the handler stays in the set.
Discard_Nothing(set, h) == set

\* set.discard(handler)
Discard(set, h) == set \ {h}

\* Both handler registries are defaultdicts: looking up a missing session id
\* or event type creates the entry and never fails.
LookupSucceeds(s, t) == TRUE

\* The body of an unsubscribe function, for every event type it covers:
\* discard the handler, then delete the entries left empty.
RemoveHandler(s, types, h) ==
    /\ \A t \in types : LookupSucceeds(s, t)
    /\ IF s = Global
       THEN /\ globalHandlers' = [t \in EventTypes |->
                   IF t \in types THEN Discard(globalHandlers[t], h) ELSE globalHandlers[t]]
            /\ UNCHANGED sessionHandlers
       ELSE /\ sessionHandlers' = [sessionHandlers EXCEPT ![s] = [t \in EventTypes |->
                   IF t \in types THEN Discard(@[t], h) ELSE @[t]]]
            /\ UNCHANGED globalHandlers

\* The record of the last close ends when its session is subscribed for or
\* is given a queue again.
ReleaseEnds(s) ==
    released' = IF released.session_id = s THEN NoRelease ELSE released

\* subscribe(event_type, handler, session_id)
Subscribe(t, h, s) ==
    /\ Subscriptions < MaxSubscriptions
    /\ ~Registered(s, t, h)
    /\ AddHandler(s, {t}, h)
    /\ unsubscribed' = unsubscribed \ {<<s, t, h>>}
    /\ ReleaseEnds(s)
    /\ UNCHANGED <<sessionQueues, pub, streamLog, orchVars, storeVars, apiVars, restoreVars, handles>>

\* subscribe_all(handler, session_id): subscribe for every event type.
SubscribeAll(h, s) ==
    /\ Subscriptions
         + Cardinality({t \in EventTypes : ~Registered(s, t, h)}) <= MaxSubscriptions
    /\ \E t \in EventTypes : ~Registered(s, t, h)
    /\ AddHandler(s, EventTypes, h)
    /\ unsubscribed' = unsubscribed \ {<<s, t, h>> : t \in EventTypes}
    /\ ReleaseEnds(s)
    /\ UNCHANGED <<sessionQueues, pub, streamLog, orchVars, storeVars, apiVars, restoreVars, handles>>

\* A call of the function subscribe returned, the first or a later one.
Unsubscribe(t, h, s) ==
    /\ RemoveHandler(s, {t}, h)
    /\ unsubscribed' = {<<s, t, h>>}
    /\ UNCHANGED <<sessionQueues, pub, streamLog, released, orchVars, storeVars, apiVars, restoreVars, handles>>

\* A call of the function subscribe_all returned: it calls the unsubscribe
\* function of every event type.
UnsubscribeAll(h, s) ==
    /\ RemoveHandler(s, EventTypes, h)
    /\ unsubscribed' = {<<s, t, h>> : t \in EventTypes}
    /\ UNCHANGED <<sessionQueues, pub, streamLog, released, orchVars, storeVars, apiVars, restoreVars, handles>>

\* Mutant: every call installs a new, empty queue.
CreateIfAbsent_AlwaysNew(queues, s) ==
    [x \in DOMAIN queues \cup {s} |-> IF x = s THEN <<>> ELSE queues[x]]

\* create_session_stream, under the lock: `if session_id not in
\* self._session_queues` a new empty queue is installed, and the queue of the
\* session is returned.
CreateIfAbsent(queues, s) ==
    IF s \in DOMAIN queues
    THEN queues
    ELSE [x \in DOMAIN queues \cup {s} |-> IF x = s THEN <<>> ELSE queues[x]]

\* create_session_stream.  The lock is free whenever the call starts (no
\* holder awaits inside it), so the call runs without suspension.
CreateSessionStream(s) ==
    /\ sessionQueues' = CreateIfAbsent(sessionQueues, s)
    /\ sharedStreams' = IF s \in DOMAIN sessionQueues /\ sessionQueues[s] # <<>>
                        THEN sharedStreams \cup {s}
                        ELSE sharedStreams
    /\ ReleaseEnds(s)
    /\ UNCHANGED <<globalHandlers, sessionHandlers, pub, unsubscribed, overflow,
                   orchVars, storeVars, apiVars, restoreVars, handles>>

\* Mutant: the handlers of the session stay.
ReleaseHandlers_Keep(handlers, s) == handlers

\* close_session_stream: `del self._session_handlers[session_id]`; a later
\* lookup of the defaultdict finds no handler.
ReleaseHandlers(handlers, s) == [handlers EXCEPT ![s] = NoHandlers]

\* close_session_stream: the queue and the session's handlers are dropped.
\* A call that finds neither changes nothing and is left out.
CloseSessionStream(s) ==
    /\ s \in DOMAIN sessionQueues \/ sessionHandlers[s] # NoHandlers
    /\ sessionQueues' = [x \in DOMAIN sessionQueues \ {s} |-> sessionQueues[x]]
    /\ sessionHandlers' = ReleaseHandlers(sessionHandlers, s)
    /\ released' = IF s \in DOMAIN sessionQueues /\ sessionHandlers[s] # NoHandlers
                   THEN [session_id |-> s,
                         handlers |-> {<<t, h>> \in EventTypes \X Handlers :
                                         h \in sessionHandlers[s][t]},
                         published |-> FALSE]
                   ELSE released
    /\ sharedStreams' = sharedStreams \ {s}
    /\ overflow' = IF overflow.session_id = s THEN NoOverflow ELSE overflow
    /\ UNCHANGED <<globalHandlers, pub, unsubscribed, orchVars, storeVars, apiVars, restoreVars, handles>>

\* clear: every handler and every queue is dropped.
Clear ==
    /\ globalHandlers' = NoHandlers
    /\ sessionHandlers' = [s \in SessionIds |-> NoHandlers]
    /\ sessionQueues' = <<>>
    /\ sharedStreams' = {}
    /\ overflow' = NoOverflow
    /\ released' = NoRelease
    /\ UNCHANGED <<pub, unsubscribed, orchVars, storeVars, apiVars, restoreVars, handles>>

\* The consumer of a session stream takes the oldest event: queue.get().
StreamGet(s) ==
    /\ s \in DOMAIN sessionQueues
    /\ sessionQueues[s] # <<>>
    /\ sessionQueues' = [sessionQueues EXCEPT ![s] = Tail(@)]
    /\ overflow' = IF overflow.session_id = s /\ overflow.stage = "dropped"
                   THEN [overflow EXCEPT !.stage = "freed"]
                   ELSE overflow
    /\ UNCHANGED <<globalHandlers, sessionHandlers, pub, unsubscribed, sharedStreams,
                   released, orchVars, storeVars, apiVars, restoreVars, handles>>

\* Mutant: the session handlers of the event's type are taken from every
\* session.
CollectHandlers_AnySession(e) ==
    {<<Global, h>> : h \in globalHandlers[e.event_type]}
    \cup {<<s, h>> \in SessionIds \X Handlers : h \in sessionHandlers[s][e.event_type]}

\* publish, the handlers to call: the global handlers of the event's type,
\* then the handlers of the event's session for that type.
CollectHandlers(e) ==
    {<<Global, h>> : h \in globalHandlers[e.event_type]}
    \cup {<<e.session_id, h>> : h \in sessionHandlers[e.session_id][e.event_type]}

\* Mutant: the put takes no notice of the queue's size.
PutNowait_Unbounded(queues, e) ==
    IF e.session_id \in DOMAIN queues
    THEN [queues EXCEPT ![e.session_id] = Append(@, e)]
    ELSE queues

\* put_nowait into the session's queue if it exists; a full queue raises
\* QueueFull, which publish logs: the event is dropped.
PutNowait(queues, e) ==
    IF e.session_id \in DOMAIN queues /\ Len(queues[e.session_id]) < QueueMaxSize
    THEN [queues EXCEPT ![e.session_id] = Append(@, e)]
    ELSE queues

\* What the put of event e makes of the overflow record: a drop starts it
\* anew, and an event enqueued after the consumer freed space completes it.
OverflowAfterPut(queues, e) ==
    IF e.session_id \notin DOMAIN queues THEN overflow
    ELSE IF PutNowait(queues, e) = queues
         THEN [session_id |-> e.session_id, stage |-> "dropped"]
    ELSE IF overflow.session_id = e.session_id /\ overflow.stage = "freed"
         THEN [overflow EXCEPT !.stage = "enqueued"]
    ELSE overflow

\* _safe_call: `except Exception`
SafeCallCatches(outcome) == outcome = "exception"

\* Mutant: gather(...) without return_exceptions.
ReturnExceptions_Off == FALSE

\* asyncio.gather(..., return_exceptions=True)
ReturnExceptions == TRUE

\* publish up to its await: with no handler there is no await and the event
\* is enqueued at once.
PublishBegin(e) ==
    /\ pub.pc \in {"idle", "returned", "raised"}
    /\ pub.pending = {}
    /\ LET hs == CollectHandlers(e)
       IN IF hs = {}
          THEN /\ pub' = [pc |-> "returned", event |-> e, handlers |-> {},
                          pending |-> {}, raised |-> {}]
               /\ sessionQueues' = PutNowait(sessionQueues, e)
               /\ overflow' = OverflowAfterPut(sessionQueues, e)
          ELSE /\ pub' = [pc |-> "gather", event |-> e, handlers |-> hs,
                          pending |-> hs, raised |-> {}]
               /\ UNCHANGED <<sessionQueues, overflow>>
    /\ released' = IF released.session_id = e.session_id
                   THEN [released EXCEPT !.published = TRUE]
                   ELSE released
    /\ UNCHANGED <<globalHandlers, sessionHandlers, unsubscribed, sharedStreams,
                   orchVars, storeVars, apiVars, restoreVars, handles>>

\* One task of the gather: _safe_call calls the handler.  What _safe_call
\* does not catch ends the task; gather hands it to the publisher unless it
\* collects exceptions.  The other tasks of the gather run in any case.
HandlerCall(entry) ==
    /\ entry \in pub.pending
    /\ \E outcome \in HandlerOutcomes :
         LET escapes == outcome # "returns" /\ ~SafeCallCatches(outcome)
         IN pub' = [pub EXCEPT
                      !.pending = @ \ {entry},
                      !.raised = IF outcome = "returns" THEN @ ELSE @ \cup {entry},
                      !.pc = IF escapes /\ ~ReturnExceptions THEN "raised" ELSE @]
    /\ UNCHANGED <<globalHandlers, sessionHandlers, sessionQueues, unsubscribed,
                   streamLog, released, orchVars, storeVars, apiVars, restoreVars, handles>>

\* publish after the gather: enqueue and return.
PublishEnqueue ==
    /\ pub.pc = "gather"
    /\ pub.pending = {}
    /\ sessionQueues' = PutNowait(sessionQueues, pub.event)
    /\ overflow' = OverflowAfterPut(sessionQueues, pub.event)
    /\ pub' = [pub EXCEPT !.pc = "returned"]
    /\ UNCHANGED <<globalHandlers, sessionHandlers, unsubscribed, sharedStreams,
                   released, orchVars, storeVars, apiVars, restoreVars, handles>>

(***************************************************************************)
(* Specifications.                                                         *)
(***************************************************************************)
vars == <<sessions, checkpoints, pc, session, wpc, sessionLock, checkpointTask,
          cancelled, cpPc, pendingSave, saveWarnings, emitted, sessionEvents, phaseEvent,
          planCall,
          apiPc, apiSession, restoreArg, restored, cleaned,
          globalHandlers, sessionHandlers, sessionQueues, pub, unsubscribed,
          sharedStreams, overflow, released, handles>>

Init ==
    /\ sessions = <<>>
    /\ checkpoints = <<>>
    /\ pc = "new"
    /\ session = NoSession
    /\ wpc = NoTasks
    /\ sessionLock = {}
    /\ checkpointTask = FALSE
    /\ cancelled = FALSE
    /\ cpPc = "none"
    /\ pendingSave = NoCheckpoint
    /\ saveWarnings = 0
    /\ emitted = [i \in Items |-> "none"]
    /\ sessionEvents = {}
    /\ phaseEvent = NoPhaseEvent
    /\ planCall = NoCall
    /\ apiPc = "idle"
    /\ apiSession = NoSession
    /\ restoreArg = <<>>
    /\ restored = NotCalled
    /\ cleaned = NotCalled
    /\ NewEventBus

Next ==
    \/ StartResearch
    \/ PlanningBegin
    \/ PlanningRaise
    \/ PlanningClarify
    \/ PlanningDraft
    \/ PlanningToReview
    \/ Replan
    \/ DeclinePlan
    \/ \E mods \in SUBSET Items, skip \in SUBSET Items : ConfirmPlan(mods, skip)
    \/ ResearchBegin
    \/ \E i \in Items : WorkerStart(i)
    \/ \E i \in Items : WorkerMessage(i)
    \/ \E i \in Items : WorkerFinish(i)
    \/ \E i \in Items : WorkerCommit(i)
    \/ \E i \in Items : WorkerReturn(i)
    \/ ResearchReturn
    \/ SynthesisBegin
    \/ SynthesisOk
    \/ SynthesisRaise
    \/ MarkFailed
    \/ MarkPlanningFailed

Spec == Init /\ [][Next]_vars

\* The workflow as the API drives it: planning in the background task of the
\* start route, research and synthesis in the one of the confirm route, and
\* a cancel request at any moment.
NextApi ==
    \/ StartResearch
    \/ PlanningBegin
    \/ PlanningRaise
    \/ PlanningDraft
    \/ PlanningToReview
    \/ ApiConfirmPlan
    \/ ResearchBegin
    \/ \E i \in Items : WorkerStart(i)
    \/ \E i \in Items : WorkerMessage(i)
    \/ \E i \in Items : WorkerFinish(i)
    \/ \E i \in Items : WorkerCommit(i)
    \/ \E i \in Items : WorkerReturn(i)
    \/ ResearchReturn
    \/ SynthesisBegin
    \/ SynthesisOk
    \/ SynthesisRaise
    \/ MarkFailed
    \/ CancelRead
    \/ CancelWrite

SpecApi == Init /\ [][NextApi]_vars

\* The background tasks of the routes are run to their end by the event
\* loop: a step of theirs that stays possible is taken.  Nothing obliges a
\* client to send a cancel request.
SpecApiLive == SpecApi /\ WF_vars(NextApi /\ apiPc' = apiPc)

(***************************************************************************)
(* SpecStore: restore_from_checkpoint over the stores the program can      *)
(* leave behind.                                                           *)
(***************************************************************************)
MaxCheckpoints == 2  \* checkpoint rows in the store

\* The phases a checkpoint can carry, one for every rank of _PHASE_ORDER.
CheckpointPhases == {"planning", "plan_review", "researching", "synthesizing", "completed"}

\* The row of the session under restore: any phase, with or without report
\* and error.
StoredSession(p, report, err) ==
    [NewSession(OrchId, 1) EXCEPT
        !.phase = p,
        !.plan = [i \in Items |-> IF i = 1 THEN "failed" ELSE "pending"],
        !.agent_progress[1] = [status |-> "failed", pct |-> 0],
        !.agent_results = <<FailedResult(1)>>,
        !.final_report = report,
        !.error = err]

\* A second session whose id shares its first character with OrchId.
OtherSession(now) ==
    [NewSession(OtherId, now) EXCEPT
        !.phase = "plan_review",
        !.plan = [i \in Items |-> "pending"]]

StoredSessions ==
    {StoredSession(p, report, err) :
        p \in ResearchPhase, report \in {None, "", "report"}, err \in {None, "error"}}

SessionTables ==
    {CreateSession(<<>>, s) : s \in StoredSessions}
    \cup {CreateSession(CreateSession(<<>>, s), OtherSession(now)) :
            s \in StoredSessions, now \in {0, 2}}

\* What the checkpoint loop saw of session id when it saved its k-th
\* checkpoint.
Snapshot(id, p, k) ==
    [NewSession(id, 0) EXCEPT
        !.phase = p,
        !.plan = [i \in Items |-> "in_progress"],
        !.agent_results = [j \in 1..k |-> ParsedResult(Min(j, NItems))]]

RECURSIVE CheckpointLogsOfLen(_)
CheckpointLogsOfLen(n) ==
    IF n = 0 THEN {<<>>}
    ELSE {SaveCheckpoint(log, Snapshot(id, p, n), n) :
            log \in CheckpointLogsOfLen(n - 1),
            id \in {OrchId, OtherId}, p \in CheckpointPhases}

CheckpointLogs == UNION {CheckpointLogsOfLen(n) : n \in 0..MaxCheckpoints}

InitStore ==
    /\ sessions \in SessionTables
    /\ checkpoints \in CheckpointLogs
    /\ pc = "new"
    /\ session = NoSession
    /\ wpc = NoTasks
    /\ sessionLock = {}
    /\ checkpointTask = FALSE
    /\ cancelled = FALSE
    /\ cpPc = "none"
    /\ pendingSave = NoCheckpoint
    /\ saveWarnings = 0
    /\ emitted = [i \in Items |-> "none"]
    /\ sessionEvents = {}
    /\ phaseEvent = NoPhaseEvent
    /\ planCall = NoCall
    /\ apiPc = "idle"
    /\ apiSession = NoSession
    /\ restoreArg = <<>>
    /\ restored = NotCalled
    /\ cleaned = NotCalled
    /\ NewEventBus

NextStore == \E q \in Queries : Restore(q)

SpecStore == InitStore /\ [][NextStore]_vars

(***************************************************************************)
(* SpecCheckpoints: save_checkpoint and cleanup_old_checkpoints on a store *)
(* with two sessions.                                                      *)
(***************************************************************************)
MaxSaves == 3  \* calls of save_checkpoint

KeepCounts == 0..MaxSaves

\* The sessions the checkpoint loops of two orchestrators hand to
\* save_checkpoint.
Saveable ==
    {Snapshot(id, p, k) :
        id \in {OrchId, OtherId}, p \in {"researching", "synthesizing"}, k \in 1..2}

\* datetime.now() of to_checkpoint: later than every stored created_at.
Now(cps) ==
    IF cps = <<>> THEN 1
    ELSE 1 + (CHOOSE n \in {cps[k].created_at : k \in 1..Len(cps)} :
                \A k \in 1..Len(cps) : cps[k].created_at <= n)

\* The rows of session id, as positions in the table.
RowsOf(cps, id) == {k \in 1..Len(cps) : cps[k].session_id = id}

\* `SELECT id ... WHERE session_id = ? ORDER BY created_at DESC LIMIT ?`
KeepIds(cps, id, keep_count) ==
    {k \in RowsOf(cps, id) :
        Cardinality({j \in RowsOf(cps, id) : cps[j].created_at > cps[k].created_at})
            < keep_count}

\* cleanup_old_checkpoints, the rows it deletes: none `if not keep_ids`,
\* else the rows of the session whose id is not in keep_ids.
DeletedIds(cps, id, keep_count) ==
    IF KeepIds(cps, id, keep_count) = {} THEN {}
    ELSE RowsOf(cps, id) \ KeepIds(cps, id, keep_count)

\* The table without the rows at the given positions.
RECURSIVE DeleteRows(_, _)
DeleteRows(cps, ids) ==
    IF cps = <<>> THEN <<>>
    ELSE LET front == DeleteRows(SubSeq(cps, 1, Len(cps) - 1), ids)
         IN IF Len(cps) \in ids THEN front ELSE Append(front, cps[Len(cps)])

\* save_checkpoint(session)
SaveCheckpointCall(s) ==
    /\ Now(checkpoints) <= MaxSaves
    /\ checkpoints' = SaveCheckpoint(checkpoints, s, Now(checkpoints))
    /\ UNCHANGED <<sessions, orchVars, apiVars, restoreVars, busVars>>

\* cleanup_old_checkpoints(session_id, keep_count); cursor.rowcount is
\* returned.
CleanupOldCheckpoints(id, keep_count) ==
    LET ids == DeletedIds(checkpoints, id, keep_count)
    IN /\ checkpoints' = DeleteRows(checkpoints, ids)
       /\ cleaned' = [session_id |-> id, keep_count |-> keep_count,
                      deleted |-> Cardinality(ids)]
       /\ UNCHANGED <<sessions, orchVars, apiVars, restoreArg, restored, busVars>>

InitCheckpoints ==
    /\ sessions = CreateSession(CreateSession(<<>>, StoredSession("researching", None, None)),
                                OtherSession(2))
    /\ checkpoints = <<>>
    /\ pc = "new"
    /\ session = NoSession
    /\ wpc = NoTasks
    /\ sessionLock = {}
    /\ checkpointTask = FALSE
    /\ cancelled = FALSE
    /\ cpPc = "none"
    /\ pendingSave = NoCheckpoint
    /\ saveWarnings = 0
    /\ emitted = [i \in Items |-> "none"]
    /\ sessionEvents = {}
    /\ phaseEvent = NoPhaseEvent
    /\ planCall = NoCall
    /\ apiPc = "idle"
    /\ apiSession = NoSession
    /\ restoreArg = <<>>
    /\ restored = NotCalled
    /\ cleaned = NotCalled
    /\ NewEventBus

NextCheckpoints ==
    \/ \E s \in Saveable : SaveCheckpointCall(s)
    \/ \E id \in {OrchId, OtherId}, n \in KeepCounts : CleanupOldCheckpoints(id, n)

SpecCheckpoints == InitCheckpoints /\ [][NextCheckpoints]_vars

(***************************************************************************)
(* SpecResearch: one orchestrator from start to synthesis, with its        *)
(* checkpoint loop and a caller that may call cancel() at any moment.      *)
(***************************************************************************)
MaxLoopSaves == 1  \* checkpoints the checkpoint loop saves
MaxSaveWarnings == 1  \* saves of the checkpoint loop that fail

\* checkpoint_loop wakes from asyncio.sleep(interval): `if self._cancelled:
\* break`, else it goes on to save.
CheckpointWake ==
    /\ cpPc = "sleep"
    /\ cpPc' = IF cancelled THEN "ended" ELSE "save"
    /\ UNCHANGED <<pc, session, wpc, sessionLock, checkpointTask, cancelled, pendingSave, saveWarnings,
                   eventVars, planCall,
                   storeVars, extVars>>

\* Mutant: the loop ends when its body has run.
LoopAgain_Once == "ended"

\* `while not self._cancelled`, evaluated when the body has run.
LoopAgain == IF cancelled THEN "ended" ELSE "sleep"

\* manager.save_checkpoint(session) is entered: the checkpoint of the session
\* as it is in memory at this moment is built and its INSERT handed to the
\* database connection; the loop awaits the INSERT and the commit.
CheckpointSave ==
    /\ cpPc = "save"
    /\ Cardinality({k \in 1..Len(checkpoints) : checkpoints[k].session_id = OrchId})
         < MaxLoopSaves
    /\ pendingSave' = [session |-> session, now |-> Now(checkpoints)]
    /\ cpPc' = "saving"
    /\ UNCHANGED <<pc, session, wpc, sessionLock, checkpointTask, cancelled, saveWarnings,
                   eventVars, planCall,
                   storeVars, extVars>>

\* The connection has executed and committed the INSERT; save_checkpoint
\* returns to the loop when the loop still awaits it.  Cancelling the task
\* that awaits does not take the statement back from the connection.
CheckpointCommitted ==
    /\ pendingSave # NoCheckpoint
    /\ checkpoints' = SaveCheckpoint(checkpoints, pendingSave.session, pendingSave.now)
    /\ pendingSave' = NoCheckpoint
    /\ cpPc' = IF cpPc = "saving" THEN "publish" ELSE cpPc
    /\ UNCHANGED <<pc, session, wpc, sessionLock, checkpointTask, cancelled, saveWarnings,
                   eventVars, planCall,
                   sessions, extVars>>

\* manager.save_checkpoint(session) raises, before the INSERT or from the
\* database, and nothing is written: `except Exception` logs a warning, the
\* publish is skipped and the loop goes round.
CheckpointSaveFails ==
    /\ cpPc \in {"save", "saving"}
    /\ saveWarnings < MaxSaveWarnings
    /\ saveWarnings' = saveWarnings + 1
    /\ pendingSave' = NoCheckpoint
    /\ cpPc' = LoopAgain
    /\ UNCHANGED <<pc, session, wpc, sessionLock, checkpointTask, cancelled, eventVars, planCall,
                   storeVars, extVars>>

\* publish(CheckpointSavedEvent(session_id)), then the loop goes round.
CheckpointPublish ==
    /\ cpPc = "publish"
    /\ sessionEvents' = sessionEvents \cup
         {[type |-> "checkpoint_saved",
           n |-> 1 + Cardinality({e \in sessionEvents : e.type = "checkpoint_saved"})]}
    /\ cpPc' = LoopAgain
    /\ UNCHANGED <<pc, session, wpc, sessionLock, checkpointTask, cancelled, pendingSave, saveWarnings,
                   emitted, phaseEvent, planCall,
                   storeVars, extVars>>

\* ResearchOrchestrator.cancel(): the flag is set and the checkpoint task
\* stopped.  A second call changes nothing and is left out.
OrchestratorCancel ==
    /\ ~cancelled
    /\ cancelled' = TRUE
    /\ checkpointTask' = FALSE
    /\ cpPc' = StopCheckpointTask(checkpointTask, cpPc)
    /\ UNCHANGED <<pc, session, wpc, sessionLock, pendingSave, saveWarnings, eventVars, planCall, storeVars,
                   extVars>>

\* The skip lists of the confirmation: they leave the first two items, or
\* the first only, to research.
ResearchSkips == {Items \ {1}, Items \ {1, 2}}

\* run_full_workflow with auto_confirm, or the routes' background tasks:
\* planning, confirmation, research, synthesis.
NextResearch ==
    \/ StartResearch
    \/ PlanningBegin
    \/ PlanningDraft
    \/ PlanningToReview
    \/ \E skip \in ResearchSkips : ConfirmPlan({}, skip)
    \/ ResearchBegin
    \/ \E i \in Items : WorkerStart(i)
    \/ \E i \in Items : WorkerFinish(i)
    \/ \E i \in Items : WorkerCommit(i)
    \/ \E i \in Items : WorkerReturn(i)
    \/ ResearchReturn
    \/ SynthesisBegin
    \/ SynthesisOk
    \/ SynthesisRaise
    \/ CheckpointWake
    \/ CheckpointSave
    \/ CheckpointCommitted
    \/ CheckpointSaveFails
    \/ CheckpointPublish
    \/ OrchestratorCancel

SpecResearch == Init /\ [][NextResearch]_vars

(***************************************************************************)
(* SpecResume: a workflow whose process is interrupted during the research *)
(* phase and resumed by a new orchestrator, and a resume request that      *)
(* arrives while the first workflow is still running.                      *)
(***************************************************************************)
\* The process ends during the research phase (cli/main.py: KeyboardInterrupt;
\* or the server stops): the tasks, the lock, the session object and a save
\* not yet committed are gone, the tables stay.
Interrupt ==
    /\ pc = "fanout"
    /\ restored = NotCalled
    /\ apiPc = "idle"
    /\ pc' = "interrupted"
    /\ session' = NoSession
    /\ wpc' = NoTasks
    /\ sessionLock' = {}
    /\ checkpointTask' = FALSE
    /\ cpPc' = "none"
    /\ pendingSave' = NoCheckpoint
    /\ emitted' = [i \in Items |-> "none"]
    /\ phaseEvent' = NoPhaseEvent
    /\ UNCHANGED <<cancelled, saveWarnings, sessionEvents, planCall, storeVars, apiVars,
                   restoreVars, busVars>>

\* A new orchestrator's resume_session: the session is what
\* restore_from_checkpoint returns, and the caller goes on with
\* run_research_phase when its phase is researching, with
\* run_synthesis_phase when it is synthesizing.
ResumeSession ==
    /\ pc = "interrupted"
    /\ restoreArg' = OrchId
    /\ restored' = RestoreFromCheckpoint(sessions, checkpoints, OrchId)
    /\ session' = restored'
    /\ pc' = CASE restored'.phase = "researching" -> "confirmed"
              [] restored'.phase = "synthesizing" -> "researched"
              [] OTHER -> "resumed_idle"
    /\ UNCHANGED <<wpc, sessionLock, checkpointTask, loopVars, eventVars, planCall, storeVars,
                   apiVars, cleaned, busVars>>

\* POST /{id}/resume while the workflow started by confirm is running: a
\* second orchestrator gets its own session object from
\* restore_from_checkpoint.
ResumeRequest ==
    /\ apiPc = "idle"
    /\ pc = "fanout"
    /\ apiSession' = RestoreFromCheckpoint(sessions, checkpoints, OrchId)
    /\ apiPc' = "resumed"
    /\ UNCHANGED <<orchVars, storeVars, restoreVars, busVars>>

\* ... and its background task continue_workflow enters run_research_phase,
\* which sets the phase and saves the second orchestrator's session.
ResumedResearchBegin ==
    /\ apiPc = "resumed"
    /\ apiSession.phase = "researching"
    /\ apiSession' = UpdatePhase(apiSession, "researching")
    /\ sessions' = UpdateSession(sessions, apiSession')
    /\ apiPc' = "resumed_fanout"
    /\ UNCHANGED <<orchVars, checkpoints, restoreVars, busVars>>

NextResume ==
    \/ StartResearch
    \/ PlanningBegin
    \/ PlanningDraft
    \/ PlanningToReview
    \/ \E skip \in ResearchSkips : ConfirmPlan({}, skip)
    \/ ResearchBegin
    \/ \E i \in Items : WorkerStart(i)
    \/ \E i \in Items : WorkerFinish(i)
    \/ \E i \in Items : WorkerCommit(i)
    \/ \E i \in Items : WorkerReturn(i)
    \/ ResearchReturn
    \/ CheckpointWake
    \/ CheckpointSave
    \/ CheckpointCommitted
    \/ CheckpointPublish
    \/ Interrupt
    \/ ResumeSession
    \/ ResumeRequest
    \/ ResumedResearchBegin

SpecResume == Init /\ [][NextResume]_vars

(***************************************************************************)
(* orchestrator.py: the store write of a critical section fails.           *)
(***************************************************************************)
\* update_session raises inside `async with self._session_lock`, after
\* add_agent_result: the result stays in the session in memory, the row is
\* not written and the lock is released.  On the success path the exception
\* is caught by `except Exception` of the same function, which marks the item
\* failed and goes on to its own critical section; raised there, it ends the
\* task.
WorkerCommitFails(i) ==
    /\ wpc[i] \in {"lock_ok", "lock_fail"}
    /\ sessionLock = {}
    /\ IF wpc[i] = "lock_ok"
       THEN /\ session' = [UpdateAgentProgress(CommitResult(session, i, TRUE), i, "failed",
                                               session.agent_progress[i].pct)
                             EXCEPT !.plan = UpdateItemStatus(@, i, "failed")]
            /\ wpc' = [wpc EXCEPT ![i] = "lock_fail"]
       ELSE /\ session' = CommitResult(session, i, FALSE)
            /\ wpc' = [wpc EXCEPT ![i] = "crashed"]
    /\ UNCHANGED <<pc, sessionLock, checkpointTask, sessions, checkpoints, extVars, loopVars,
                   eventVars, planCall>>

\* The plans confirmed: one item, or three of which two get a permit at once.
PersistSkips == {Items \ {1}, Items \ {1, 2, 3}}

NextPersist ==
    \/ StartResearch
    \/ PlanningBegin
    \/ PlanningDraft
    \/ PlanningToReview
    \/ \E skip \in PersistSkips : ConfirmPlan({}, skip)
    \/ ResearchBegin
    \/ \E i \in Items : WorkerStart(i)
    \/ \E i \in Items : WorkerFinish(i)
    \/ \E i \in Items : WorkerCommit(i)
    \/ \E i \in Items : WorkerCommitFails(i)
    \/ \E i \in Items : WorkerReturn(i)
    \/ ResearchReturn

SpecPersist == Init /\ [][NextPersist]_vars

\* Fair scheduling of the research phase.  The event loop runs every task
\* that can run; asyncio.Semaphore and asyncio.Lock wake their waiters in
\* arrival order, so a task waiting for a permit or for the session lock gets
\* it although others take it in between (strong fairness).  A failing store
\* write is the environment's choice and gets no fairness.
FairResearch ==
    /\ \A i \in Items : SF_vars(WorkerStart(i))
    /\ \A i \in Items : WF_vars(WorkerFinish(i))
    /\ \A i \in Items : SF_vars(WorkerCommit(i))
    /\ \A i \in Items : WF_vars(WorkerReturn(i))
    /\ WF_vars(ResearchReturn)

SpecResearchLive == SpecPersist /\ FairResearch

NextBus ==
    \/ \E t \in EventTypes, h \in Handlers, s \in Scopes : Subscribe(t, h, s)
    \/ \E h \in Handlers, s \in Scopes : SubscribeAll(h, s)
    \/ Clear
    \/ \E e \in Events : PublishBegin(e)
    \/ \E entry \in (SessionIds \cup {Global}) \X Handlers : HandlerCall(entry)
    \/ PublishEnqueue

SpecBus == Init /\ [][NextBus]_vars

\* The session streams of two sessions, their consumers, and the publishes
\* to one handler function subscribed globally or for the listened session.
StreamHandlers == {"h1"}

NextStream ==
    \/ \E t \in EventTypes, h \in StreamHandlers, s \in Scopes : Subscribe(t, h, s)
    \/ \E s \in SessionIds : CreateSessionStream(s)
    \/ \E s \in SessionIds : CloseSessionStream(s)
    \/ \E s \in SessionIds : StreamGet(s)
    \/ \E e \in Events : PublishBegin(e)
    \/ \E entry \in Scopes \X StreamHandlers : HandlerCall(entry)
    \/ PublishEnqueue

SpecStream == Init /\ [][NextStream]_vars

ListenedEvents == {e \in Events : e.session_id \in Listened}

\* The handler registry under subscribe, unsubscribe, close and clear, and
\* the publishes of the events of a session with listeners.
NextUnsubscribe ==
    \/ \E t \in EventTypes, h \in Handlers, s \in Scopes : Subscribe(t, h, s)
    \/ \E h \in Handlers, s \in Scopes : SubscribeAll(h, s)
    \/ \E t \in EventTypes, h \in Handlers, s \in Scopes : Unsubscribe(t, h, s)
    \/ \E h \in Handlers, s \in Scopes : UnsubscribeAll(h, s)
    \/ \E s \in Listened : CloseSessionStream(s)
    \/ Clear
    \/ \E e \in ListenedEvents : PublishBegin(e)
    \/ \E entry \in Scopes \X Handlers : HandlerCall(entry)
    \/ PublishEnqueue

SpecUnsubscribe == Init /\ [][NextUnsubscribe]_vars

(***************************************************************************)
(* event_bus.py: the unsubscribe functions a caller keeps.                 *)
(***************************************************************************)
\* The function returned by subscribe(t, h, s), or by subscribe_all(h, s)
\* (event type "all").
Handle(kind, s, t, h) == <<kind, s, t, h>>

\* subscribe(event_type, handler, session_id), whose caller keeps the
\* function returned; the handler may be registered already.
SubscribeKeep(t, h, s) ==
    /\ Handle("subscribe", s, t, h) \notin handles
    /\ AddHandler(s, {t}, h)
    /\ handles' = handles \cup {Handle("subscribe", s, t, h)}
    /\ unsubscribed' = unsubscribed \ {<<s, t, h>>}
    /\ UNCHANGED <<sessionQueues, pub, streamLog, released, orchVars, storeVars, apiVars,
                   restoreVars>>

\* subscribe_all(handler, session_id), whose caller keeps the function
\* returned.
SubscribeAllKeep(h, s) ==
    /\ Handle("subscribe_all", s, "all", h) \notin handles
    /\ AddHandler(s, EventTypes, h)
    /\ handles' = handles \cup {Handle("subscribe_all", s, "all", h)}
    /\ unsubscribed' = unsubscribed \ {<<s, t, h>> : t \in EventTypes}
    /\ UNCHANGED <<sessionQueues, pub, streamLog, released, orchVars, storeVars, apiVars,
                   restoreVars>>

\* The first call of a function that subscribe returned.
CallUnsubscribe(t, h, s) ==
    /\ Handle("subscribe", s, t, h) \in handles
    /\ RemoveHandler(s, {t}, h)
    /\ handles' = handles \ {Handle("subscribe", s, t, h)}
    /\ unsubscribed' = {<<s, t, h>>}
    /\ UNCHANGED <<sessionQueues, pub, streamLog, released, orchVars, storeVars, apiVars,
                   restoreVars>>

\* The first call of a function that subscribe_all returned.
CallUnsubscribeAll(h, s) ==
    /\ Handle("subscribe_all", s, "all", h) \in handles
    /\ RemoveHandler(s, EventTypes, h)
    /\ handles' = handles \ {Handle("subscribe_all", s, "all", h)}
    /\ unsubscribed' = {<<s, t, h>> : t \in EventTypes}
    /\ UNCHANGED <<sessionQueues, pub, streamLog, released, orchVars, storeVars, apiVars,
                   restoreVars>>

NextHandles ==
    \/ \E t \in EventTypes, h \in StreamHandlers, s \in Scopes : SubscribeKeep(t, h, s)
    \/ \E h \in StreamHandlers, s \in Scopes : SubscribeAllKeep(h, s)
    \/ \E t \in EventTypes, h \in StreamHandlers, s \in Scopes : CallUnsubscribe(t, h, s)
    \/ \E h \in StreamHandlers, s \in Scopes : CallUnsubscribeAll(h, s)
    \/ \E e \in ListenedEvents : PublishBegin(e)
    \/ \E entry \in Scopes \X StreamHandlers : HandlerCall(entry)
    \/ PublishEnqueue

SpecHandles == Init /\ [][NextHandles]_vars

(***************************************************************************)
(* Properties of the research phase.                                       *)
(***************************************************************************)
\* The row of the orchestrator's session.
HasRow == OrchId \in DOMAIN sessions
Row == sessions[OrchId]
RowPhase == IF HasRow THEN Row.phase ELSE None

ResultCount(results, i) ==
    Cardinality({k \in 1..Len(results) : results[k].plan_item_id = i})

\* One result for every item of the plan that is not skipped, none for the others.
OneResultPerItem(plan, results) ==
    \A i \in Items :
        ResultCount(results, i) = IF plan[i] \in {"absent", "skipped"} THEN 0 ELSE 1

\* run_research_phase has returned.
AfterResearch == pc \in {"researched", "synth_exec", "completed", "synth_failed", "failed_marked"}

\* C1: once run_research_phase has returned, the result list in memory and
\* the one of the durable row hold exactly one result for every item that is
\* not skipped and none for a skipped item, whatever each researcher ended in.
C1_OneResultPerNonSkippedItem ==
    AfterResearch =>
        /\ OneResultPerItem(session.plan, session.agent_results)
        /\ HasRow
        /\ OneResultPerItem(session.plan, Row.agent_results_json)

C1_Witness ==
    /\ pc = "researched"
    /\ \E i, j, k \in Items :
         /\ session.plan[i] = "skipped"
         /\ wpc[j] = "done_fail"
         /\ wpc[k] = "done_ok"

Running(progress) == {i \in Items : progress[i].status = "running"}

\* C2: in every state at most max_parallel_agents progress records are
\* running, in memory and in the saved row.
C2_AtMostKRunning ==
    /\ pc # "new" => Cardinality(Running(session.agent_progress)) <= MaxParallelAgents
    /\ HasRow => Cardinality(Running(Row.agent_progress_json)) <= MaxParallelAgents

\* All permits are taken while more pending items than permits exist.
C2_Witness ==
    /\ pc = "fanout"
    /\ Cardinality({i \in Items : wpc[i] # "none"}) > MaxParallelAgents
    /\ Cardinality(Running(session.agent_progress)) = MaxParallelAgents
    /\ \E i \in Items : wpc[i] = "wait"
    /\ \E i \in Items : session.agent_progress[i].pct > 0

\* C3: run_research_phase never raises, and when it returns every item that
\* is not skipped has been executed to a terminal status, whichever
\* researchers failed.
C3_FailedWorkerNeverAbortsBatch ==
    /\ pc # "research_raised"
    /\ \A i \in Items : wpc[i] # "crashed"
    /\ AfterResearch =>
         \A i \in Items : session.plan[i] \in {"absent", "skipped", "completed", "failed"}

C3_Witness ==
    /\ pc = "researched"
    /\ \E i, j \in Items : wpc[i] = "done_fail" /\ wpc[j] = "done_ok"

\* C4: a researcher that failed leaves its item failed, its progress record
\* failed and exactly one result of its item, with confidence 0 and non-empty
\* findings; and run_synthesis_phase can start once the research phase has
\* returned.
C4_FailedItemYieldsDegradedResult ==
    /\ \A i \in Items :
         wpc[i] \in {"in_fail", "done_fail"} =>
            /\ session.plan[i] = "failed"
            /\ session.agent_progress[i].status = "failed"
            /\ ResultCount(session.agent_results, i) = 1
            /\ \A k \in 1..Len(session.agent_results) :
                 session.agent_results[k].plan_item_id = i =>
                    /\ session.agent_results[k].confidence = 0
                    /\ session.agent_results[k].findings # ""
    /\ pc = "researched" => ENABLED SynthesisBegin

\* Synthesis has run to completion over a failed and a successful result.
C4_Witness ==
    /\ pc = "completed"
    /\ \E i, j \in Items : wpc[i] = "done_fail" /\ wpc[j] = "done_ok"
    /\ Len(session.agent_results) >= 2

(***************************************************************************)
(* Properties of the persisted phase.                                      *)
(***************************************************************************)
\* C5: once the row's phase is completed, failed or cancelled, no step
\* changes it.
C5_TerminalPhaseAbsorbing ==
    [][(HasRow /\ Row.phase \in TerminalPhases) => RowPhase' = RowPhase]_vars

PhaseIndex(p) == CHOOSE k \in 1..Len(NormalPhases) : NormalPhases[k] = p
IsNormalPhase(p) == \E k \in 1..Len(NormalPhases) : NormalPhases[k] = p

\* C6: every change of the persisted phase among planning, plan_review,
\* researching, synthesizing and completed moves one step forward.
C6_PersistedPhaseStepsForward ==
    [][(IsNormalPhase(RowPhase) /\ IsNormalPhase(RowPhase') /\ RowPhase' # RowPhase)
          => PhaseIndex(RowPhase') = PhaseIndex(RowPhase) + 1]_vars

(***************************************************************************)
(* Properties of restore_from_checkpoint.                                  *)
(***************************************************************************)
Called == restored # NotCalled
Found == Called /\ restored # NoSession

\* The call was about session id: it was passed as the full id, or the
\* prefix resolved to it.
RestoreOf(id) ==
    /\ Called
    /\ restoreArg = id \/ (Found /\ restored.session_id = id)

RowIsFinal(row) ==
    \/ row.phase \in TerminalPhases
    \/ row.final_report \notin {None, ""}

CheckpointsOf(id) == {k \in 1..Len(checkpoints) : checkpoints[k].session_id = id}

\* The checkpoint of session id that was saved last.
LastCheckpointOf(id) ==
    checkpoints[CHOOSE k \in CheckpointsOf(id) : \A j \in CheckpointsOf(id) : j <= k].checkpoint_json

RowVerbatim(s, row) ==
    /\ s.session_id = row.session_id
    /\ s.phase = row.phase
    /\ s.plan = row.plan_json
    /\ s.agent_progress = row.agent_progress_json
    /\ s.agent_results = row.agent_results_json
    /\ s.final_report = row.final_report
    /\ s.error = row.error

\* C7: restore_from_checkpoint of a session whose row is completed, failed or
\* cancelled, or carries a non-empty final report, returns the row as it is,
\* whatever checkpoints the session has.
C7_FinalRowIsAuthoritative ==
    \A id \in DOMAIN sessions :
        (RestoreOf(id) /\ RowIsFinal(sessions[id]))
            => (Found /\ RowVerbatim(restored, sessions[id]))

\* A row in synthesizing with a report was restored although its latest
\* checkpoint says researching.
C7_Witness ==
    /\ RestoreOf(OrchId)
    /\ Row.phase = "synthesizing"
    /\ Row.final_report = "report"
    /\ CheckpointsOf(OrchId) # {}
    /\ LastCheckpointOf(OrchId).phase = "researching"
    /\ restored.phase = "synthesizing"

\* Planning < PlanReview < Researching < Synthesizing < terminal
PhaseRanks == <<{"planning"}, {"plan_review"}, {"researching"}, {"synthesizing"}, TerminalPhases>>
MoreAdvanced(p, q) ==
    \E a, b \in 1..Len(PhaseRanks) : a > b /\ p \in PhaseRanks[a] /\ q \in PhaseRanks[b]

\* C8: restore_from_checkpoint of a session whose row is not final and that
\* has a checkpoint returns the session of the latest checkpoint, with the
\* row's phase when that is strictly more advanced than the checkpoint's and
\* the checkpoint's phase otherwise; the returned phase is never earlier than
\* the row's.
C8_RestoredPhaseIsTheMoreAdvanced ==
    \A id \in DOMAIN sessions :
        (RestoreOf(id) /\ ~RowIsFinal(sessions[id]) /\ CheckpointsOf(id) # {})
            => /\ Found
               /\ restored.session_id = id
               /\ restored.plan = LastCheckpointOf(id).plan
               /\ restored.agent_results = LastCheckpointOf(id).agent_results
               /\ restored.phase =
                    IF MoreAdvanced(sessions[id].phase, LastCheckpointOf(id).phase)
                    THEN sessions[id].phase
                    ELSE LastCheckpointOf(id).phase
               /\ ~MoreAdvanced(sessions[id].phase, restored.phase)

\* The row says synthesizing, the latest of two checkpoints says researching.
C8_Witness ==
    /\ RestoreOf(OrchId)
    /\ Row.phase = "synthesizing"
    /\ ~RowIsFinal(Row)
    /\ Cardinality(CheckpointsOf(OrchId)) >= 2
    /\ LastCheckpointOf(OrchId).phase = "researching"
    /\ restored.phase = "synthesizing"
    /\ restored.agent_results = LastCheckpointOf(OrchId).agent_results

Matches(q) == {id \in DOMAIN sessions : IsPrefix(q, id)}

\* C9: restore_from_checkpoint of a session whose row is not final and that
\* has no checkpoint returns the row as it is; for an id or prefix that
\* matches no session it returns no session; and no call changes a session
\* row or a checkpoint.
C9_NoCheckpointOrNoSession ==
    /\ [](\A id \in DOMAIN sessions :
            (RestoreOf(id) /\ ~RowIsFinal(sessions[id]) /\ CheckpointsOf(id) = {})
                => (Found /\ RowVerbatim(restored, sessions[id])))
    /\ []((Called /\ Matches(restoreArg) = {}) => restored = NoSession)
    /\ [][restored' # restored =>
            (sessions' = sessions /\ checkpoints' = checkpoints)]_vars

\* A row without checkpoint was restored while the other session has one.
C9_Witness ==
    /\ RestoreOf(OrchId)
    /\ ~RowIsFinal(Row)
    /\ CheckpointsOf(OrchId) = {}
    /\ CheckpointsOf(OtherId) # {}
    /\ restored.phase = Row.phase

\* A call with a prefix that matches no session.
C9_WitnessNoMatch ==
    /\ Called
    /\ restoreArg = <<2>>
    /\ restored = NoSession

(***************************************************************************)
(* Properties of the event bus.                                            *)
(***************************************************************************)
\* C10: whatever handlers matched an event and whichever of them raised,
\* publish never ends with an exception, and when it returns every matched
\* handler has been called.
C10_RaisingHandlerIsIsolated ==
    /\ pub.pc # "raised"
    /\ pub.pc = "returned" => pub.pending = {}
    /\ pub.pending \cup pub.raised \subseteq pub.handlers

\* publish returned after a global handler raised an Exception or a
\* CancelledError and the session's handler was called all the same.
C10_Witness ==
    /\ pub.pc = "returned"
    /\ \E g \in Handlers, h \in Handlers :
         /\ <<Global, g>> \in pub.raised
         /\ <<pub.event.session_id, h>> \in pub.handlers \ pub.raised

MatchedBy(e) ==
    {<<s, h>> \in (SessionIds \cup {Global}) \X Handlers :
        /\ s \in {Global, e.session_id}
        /\ Registered(s, e.event_type, h)}

\* C12: publish calls exactly the handlers that, when it starts, are
\* subscribed globally for the event's type or for the event's session and
\* type, and no handler of another session or another type.
C12_PublishCallsExactlyTheMatched ==
    [][/\ \A e \in Events : PublishBegin(e) => pub'.handlers = MatchedBy(e)
       /\ \A entry \in (SessionIds \cup {Global}) \X Handlers :
            HandlerCall(entry) => entry \in pub.handlers
       /\ PublishEnqueue => pub.pending = {}]_vars

\* An event of a session without listeners has been published to the global
\* handler of its type while another session has a handler for that type.
C12_Witness ==
    /\ pub.pc = "returned"
    /\ pub.event.session_id \notin Listened
    /\ \E g \in Handlers : pub.handlers = {<<Global, g>>}
    /\ \E s \in Listened, h \in Handlers : Registered(s, pub.event.event_type, h)

\* C13: create_session_stream is create-if-absent.  A call for a session
\* that has a queue leaves that queue, with the events pending in it, as the
\* one queue of the session; a call for a session without a queue installs an
\* empty one; no call touches the queue of another session.  Calls are
\* interleaved with each other, with consumers and with a publish in flight.
C13_CreateIfAbsent ==
    [][\A s \in SessionIds :
          CreateSessionStream(s) =>
              /\ DOMAIN sessionQueues' = DOMAIN sessionQueues \cup {s}
              /\ \A x \in DOMAIN sessionQueues : sessionQueues'[x] = sessionQueues[x]
              /\ s \notin DOMAIN sessionQueues => sessionQueues'[s] = <<>>]_vars

\* A repeated call returned a queue with events pending, twice over: for both
\* sessions, while a publish is awaiting its handlers.
C13_Witness ==
    /\ sharedStreams = SessionIds
    /\ \A s \in SessionIds : s \in DOMAIN sessionQueues /\ sessionQueues[s] # <<>>
    /\ pub.pc = "gather"

\* C14: a session's queue never holds more than its maximum size.  The step
\* of publish that puts the event returns from publish in every case: into a
\* full queue nothing is put and the event is lost, into a queue with space
\* the event is appended, also after earlier events were dropped.
C14_FullQueueDropsWithoutBlocking ==
    /\ [](\A s \in DOMAIN sessionQueues : Len(sessionQueues[s]) <= QueueMaxSize)
    /\ [][\A e \in Events :
            (PublishBegin(e) /\ pub'.pc # "gather") \/ (PublishEnqueue /\ pub.event = e) =>
                /\ pub'.pc = "returned"
                /\ e.session_id \in DOMAIN sessionQueues =>
                     LET q == sessionQueues[e.session_id]
                     IN IF Len(q) = QueueMaxSize
                        THEN sessionQueues' = sessionQueues
                        ELSE sessionQueues' =
                               [sessionQueues EXCEPT ![e.session_id] = Append(q, e)]]_vars

\* An event of a session was dropped at a full queue, the consumer then took
\* an event, and the event published after that has just been enqueued.
C14_Witness ==
    /\ overflow.stage = "enqueued"
    /\ pub.pc = "returned"
    /\ pub.event.session_id = overflow.session_id
    /\ LET q == sessionQueues[overflow.session_id]
       IN Len(q) = QueueMaxSize /\ q[Len(q)] = pub.event

\* C15: close_session_stream(s) removes the queue of s and every handler
\* subscribed for s, and leaves the global handlers and the queues and
\* handlers of every other session as they were.  Until s is subscribed for
\* or given a queue again, a publish of an event of s collects none of the
\* released handlers and puts the event into no queue.  (A publish that was
\* awaiting its handlers when the call ran still calls the handlers it had
\* collected; its event is not enqueued.)
C15_CloseReleasesQueueAndHandlers ==
    /\ [][\A s \in SessionIds :
            CloseSessionStream(s) =>
                /\ s \notin DOMAIN sessionQueues'
                /\ sessionHandlers'[s] = NoHandlers
                /\ globalHandlers' = globalHandlers
                /\ \A x \in SessionIds \ {s} :
                     /\ sessionHandlers'[x] = sessionHandlers[x]
                     /\ x \in DOMAIN sessionQueues' <=> x \in DOMAIN sessionQueues
                     /\ x \in DOMAIN sessionQueues => sessionQueues'[x] = sessionQueues[x]]_vars
    /\ [](released # NoRelease =>
            /\ released.session_id \notin DOMAIN sessionQueues
            /\ sessionHandlers[released.session_id] = NoHandlers)
    /\ [][\A e \in Events :
            e.session_id = released.session_id =>
                /\ PublishBegin(e) =>
                     \A <<t, h>> \in released.handlers :
                         <<e.session_id, h>> \notin pub'.handlers
                /\ (PublishBegin(e) \/ (PublishEnqueue /\ pub.event = e)) =>
                     sessionQueues' = sessionQueues]_vars

\* The listened session was closed while it had a queue and a handler of the
\* event type published afterwards: that publish called the global handler
\* only and returned, the session has no queue, and the queue of the other
\* session holds its event.
C15_Witness ==
    /\ released.published
    /\ pub.pc = "returned"
    /\ pub.event.session_id = released.session_id
    /\ \E h \in Handlers :
         /\ <<pub.event.event_type, h>> \in released.handlers
         /\ pub.handlers = {<<Global, h>>}
    /\ released.session_id \notin DOMAIN sessionQueues
    /\ \E x \in DOMAIN sessionQueues : sessionQueues[x] # <<>>

\* C16: save_checkpoint appends.  A call leaves every row of the table as
\* it was and adds one row after them, which holds the snapshot of the
\* session it was given; so the session has one checkpoint more and its
\* latest checkpoint is that snapshot, and no other session's checkpoints
\* change.
C16_CheckpointsAppendOnly ==
    [][\A s \in Saveable :
          SaveCheckpointCall(s) =>
              /\ Len(checkpoints') = Len(checkpoints) + 1
              /\ SubSeq(checkpoints', 1, Len(checkpoints)) = checkpoints
              /\ checkpoints'[Len(checkpoints')].session_id = s.session_id
              /\ checkpoints'[Len(checkpoints')].checkpoint_json
                    = ToCheckpoint(s, Now(checkpoints))
              /\ GetLatestCheckpoint(checkpoints', s.session_id)
                    = ToCheckpoint(s, Now(checkpoints))
              /\ Cardinality(RowsOf(checkpoints', s.session_id))
                    = Cardinality(RowsOf(checkpoints, s.session_id)) + 1]_vars

\* Three saves, no cleanup: two checkpoints of one session around one of the
\* other, in the order saved, the latest of each being its last snapshot.
C16_Witness ==
    /\ cleaned = NotCalled
    /\ Len(checkpoints) = 3
    /\ checkpoints[1].session_id = OrchId
    /\ checkpoints[2].session_id = OtherId
    /\ checkpoints[3].session_id = OrchId
    /\ checkpoints[1].checkpoint_json.phase = "researching"
    /\ checkpoints[3].checkpoint_json.phase = "synthesizing"
    /\ GetLatestCheckpoint(checkpoints, OrchId) = checkpoints[3].checkpoint_json
    /\ GetLatestCheckpoint(checkpoints, OtherId) = checkpoints[2].checkpoint_json

\* C17: for every keep_count n >= 0, n = 0 included, and a session with c
\* checkpoints, cleanup_old_checkpoints(session, n) leaves exactly the
\* min(n, c) most recent checkpoints of the session, returns c - min(n, c),
\* and leaves the checkpoints of every other session as they were.
C17_CleanupKeepsTheMostRecent ==
    [][\A id \in {OrchId, OtherId}, n \in KeepCounts :
          CleanupOldCheckpoints(id, n) =>
              LET c == Cardinality(RowsOf(checkpoints, id))
                  kept == Min(n, c)
              IN /\ SelectSeq(checkpoints', LAMBDA row : row.session_id = id)
                      = [k \in 1..kept |->
                           SelectSeq(checkpoints, LAMBDA row : row.session_id = id)[c - kept + k]]
                 /\ cleaned'.deleted = c - kept
                 /\ SelectSeq(checkpoints', LAMBDA row : row.session_id # id)
                      = SelectSeq(checkpoints, LAMBDA row : row.session_id # id)]_vars

\* C17 for the keep counts the code handles: with n >= 1 the statement of
\* C17 holds.
C17_CleanupKeepsTheMostRecent_Positive ==
    [][\A id \in {OrchId, OtherId}, n \in KeepCounts \ {0} :
          CleanupOldCheckpoints(id, n) =>
              LET c == Cardinality(RowsOf(checkpoints, id))
                  kept == Min(n, c)
              IN /\ SelectSeq(checkpoints', LAMBDA row : row.session_id = id)
                      = [k \in 1..kept |->
                           SelectSeq(checkpoints, LAMBDA row : row.session_id = id)[c - kept + k]]
                 /\ cleaned'.deleted = c - kept
                 /\ SelectSeq(checkpoints', LAMBDA row : row.session_id # id)
                      = SelectSeq(checkpoints, LAMBDA row : row.session_id # id)]_vars

\* C18: run_synthesis_phase ends in one of two ways.  On success the row is
\* written once, with the report and phase completed together, and the call
\* returns; so no row (and no session in memory) is completed without a
\* report.  On failure nothing is written: the row stays synthesizing
\* without a report and the call raises.
C18_SynthesisOutcomes ==
    /\ [](HasRow /\ Row.phase = "completed" => Row.final_report # None)
    /\ [](session # NoSession /\ session.phase = "completed" => session.final_report # None)
    /\ [][pc = "synth_exec" /\ pc' # pc =>
            \/ /\ pc' = "completed"
               /\ session'.final_report \in ReportContents
               /\ session'.phase = "completed"
               /\ Row' = SessionToRow(session')
            \/ /\ pc' = "synth_failed"
               /\ sessions' = sessions /\ session' = session
               /\ Row.phase = "synthesizing" /\ Row.final_report = None
               /\ session.phase = "synthesizing" /\ session.final_report = None]_vars

\* The synthesizer succeeded over a batch with a failed item: the row is
\* completed and holds the report.
C18_Witness ==
    /\ pc = "completed"
    /\ HasRow /\ Row.phase = "completed" /\ Row.final_report = "report"
    /\ \E i \in Items : Row.plan_json[i] = "failed"

\* The synthesizer failed and the caller has not handled it yet: the row is
\* synthesizing and holds the results but no report.
C18_WitnessRaise ==
    /\ pc = "synth_failed"
    /\ HasRow /\ Row.phase = "synthesizing" /\ Row.final_report = None
    /\ Row.agent_results_json # <<>>

\* C19: whenever run_planning_phase or run_synthesis_phase has raised inside
\* a workflow driven by a caller, the session's row ends in phase failed with
\* the error text attached.
C19_FailureEndsPersistedFailed ==
    (pc \in {"plan_failed", "synth_failed"})
        ~> (HasRow /\ Row.phase = "failed" /\ Row.error # None)

\* C20: the step that marks the session failed changes the phase and the
\* error of the session in memory and of its row and nothing else of either:
\* the plan, the progress records and every result recorded before are still
\* there afterwards.
C20_MarkFailedKeepsPlanAndResults ==
    [][MarkFailed \/ MarkPlanningFailed =>
          /\ session' = [session EXCEPT !.phase = "failed", !.error = session'.error]
          /\ session'.error # None
          /\ Row' = [Row EXCEPT !.phase = "failed", !.error = session'.error]
          /\ Row'.plan_json = session.plan
          /\ Row'.agent_results_json = session.agent_results]_vars

\* The synthesizer failed after a batch in which an item completed and an
\* item failed: the session is failed with its error, and the row still holds
\* the plan and one result for every item.
C20_Witness ==
    /\ pc = "failed_marked"
    /\ HasRow /\ Row.phase = "failed" /\ Row.error = "error"
    /\ \E i, j \in Items : Row.plan_json[i] = "completed" /\ Row.plan_json[j] = "failed"
    /\ Len(Row.agent_results_json) = NItems
    /\ session.agent_results = Row.agent_results_json

\* C21: once cancel() has been called, a later run_research_phase or
\* run_synthesis_phase of the orchestrator starts no phase: it writes no
\* phase to the row and creates no researcher task.  The call of cancel()
\* itself leaves the session and the researcher tasks in flight as they are.
C21_CancelledStartsNoPhase ==
    /\ [][cancelled /\ (ResearchBegin \/ SynthesisBegin) =>
            /\ sessions' = sessions
            /\ session'.phase = session.phase
            /\ wpc' = wpc]_vars
    /\ [][OrchestratorCancel =>
            /\ wpc' = wpc /\ session' = session /\ sessions' = sessions
            /\ sessionLock' = sessionLock]_vars

\* The half of C21 the code keeps: cancel() interrupts no researcher in
\* flight and changes nothing of the session.
C21_CancelLeavesWorkers ==
    [][OrchestratorCancel =>
          /\ wpc' = wpc /\ session' = session /\ sessions' = sessions
          /\ sessionLock' = sessionLock]_vars

\* C22: confirm_plan(session, skip_items) without modifications sets the
\* items named to skipped and leaves the status of every other item as it
\* was, saves the session, and leaves the phase, in memory and in the row,
\* at plan_review.
C22_ConfirmSkipsExactlyTheNamed ==
    [][\A skip \in SUBSET Items :
          ConfirmPlan({}, skip) =>
              /\ \A i \in Items :
                   session'.plan[i] = IF i \in skip THEN "skipped" ELSE session.plan[i]
              /\ session' = [session EXCEPT !.plan = session'.plan]
              /\ Row' = SessionToRow(session')
              /\ Row'.phase = Row.phase /\ Row.phase = "plan_review"]_vars

\* The plan was confirmed with one item skipped: that item is skipped, the
\* others are pending, in memory and in the row, and the phase is still
\* plan_review.
C22_Witness ==
    /\ pc = "confirmed"
    /\ \E i \in Items :
         /\ session.plan[i] = "skipped"
         /\ \A j \in Items \ {i} : session.plan[j] = "pending"
    /\ HasRow /\ Row.plan_json = session.plan
    /\ Row.phase = "plan_review" /\ session.phase = "plan_review"


(***************************************************************************)
(* C23: when run_planning_phase returns clarification questions, the       *)
(* session's phase and its row are what they were when the call was made   *)
(* and no plan-ready event was published; the phase moves from planning to *)
(* plan_review only on a complete plan, with the plan in the row and the   *)
(* plan-ready event published.                                             *)
(***************************************************************************)
C23_ClarifyKeepsPhaseAndRow ==
    /\ [][PlanningClarify =>
            /\ session.phase = planCall.phase
            /\ Row = planCall.row
            /\ ~planCall.plan_draft]_vars
    /\ [][PlanningToReview =>
            /\ session.phase = "planning" /\ session'.phase = "plan_review"
            /\ session'.plan # NoPlan
            /\ Row'.phase = "plan_review" /\ Row'.plan_json = session'.plan
            /\ planCall.plan_draft]_vars

\* What holds of a call that returns clarification questions: the row is the
\* one the call found and no plan-ready event was published.
C23_ClarifyPersistsNothing ==
    [][PlanningClarify => Row = planCall.row /\ ~planCall.plan_draft]_vars

\* What holds of a call that returns a plan.
C23_PlanMovesToReview ==
    [][PlanningToReview =>
            /\ session.phase = "planning" /\ session'.phase = "plan_review"
            /\ session'.plan # NoPlan
            /\ Row'.phase = "plan_review" /\ Row'.plan_json = session'.plan
            /\ planCall.plan_draft]_vars

(***************************************************************************)
(* C24: what a researcher task changes in the shared session when its item *)
(* completes or fails (the progress record, the result list) changes while *)
(* the task holds the session lock, and between that change and the save   *)
(* that writes it no other task changes or saves the session.              *)
(***************************************************************************)
AwaitsCommit(i) == wpc[i] \in {"lock_ok", "lock_fail"}

C24_OneCriticalSection ==
    /\ [][\A i \in Items :
             (WorkerFinish(i) \/ WorkerCommit(i)) /\ session' # session
                 => i \in sessionLock']_vars
    /\ [][\A i \in Items :
             AwaitsCommit(i) /\ (session' # session \/ sessions' # sessions)
                 => WorkerCommit(i)]_vars

\* What holds: the result is appended and the session saved by one holder of
\* the lock at a time, and the save writes the list with the result in it.
C24_AppendAndSaveUnderLock ==
    /\ [][\A i \in Items :
             WorkerCommit(i) =>
                 /\ sessionLock = {} /\ sessionLock' = {i}
                 /\ Len(session'.agent_results) = Len(session.agent_results) + 1
                 /\ Row'.agent_results_json = session'.agent_results]_vars
    /\ [][pc = "fanout" /\ session'.agent_results # session.agent_results
             => \E i \in Items : WorkerCommit(i)]_vars
    /\ [](Cardinality(sessionLock) <= 1)

(***************************************************************************)
(* C25: no result is lost, in whatever order the researchers complete:     *)
(* when a task leaves its critical section its result is in the list in    *)
(* memory and in the row, no later step of the research phase removes a    *)
(* result from either, and when run_research_phase has returned the row    *)
(* holds one result for each task that ran.                                *)
(***************************************************************************)
Ran == {i \in Items : wpc[i] # "none"}

\* The list `after` is the list `before` with results appended.
Extends(after, before) ==
    /\ Len(after) >= Len(before)
    /\ SubSeq(after, 1, Len(before)) = before

C25_NoCompletionLost ==
    /\ [][\A i \in Items :
             WorkerReturn(i) =>
                 /\ ResultCount(session.agent_results, i) = 1
                 /\ ResultCount(Row.agent_results_json, i) = 1
                 /\ ResultCount(session'.agent_results, i) = 1
                 /\ ResultCount(Row'.agent_results_json, i) = 1]_vars
    /\ [][pc = "fanout" =>
             /\ Extends(session'.agent_results, session.agent_results)
             /\ Extends(Row'.agent_results_json, Row.agent_results_json)]_vars
    /\ [](pc = "researched" =>
             /\ Len(Row.agent_results_json) = Cardinality(Ran)
             /\ \A i \in Ran : ResultCount(Row.agent_results_json, i) = 1)

\* Three researchers have completed, the third item first and one of them
\* failed, and the row holds the three results.
C25_Witness ==
    /\ pc = "researched"
    /\ Cardinality(Ran) = NItems
    /\ Len(Row.agent_results_json) = NItems
    /\ Row.agent_results_json[1].plan_item_id = NItems
    /\ \E i, j \in Items : wpc[i] = "done_fail" /\ wpc[j] = "done_ok"

(***************************************************************************)
(* C26: run_research_phase returns only when every researcher task it      *)
(* created is done: from its return on no progress record is running and   *)
(* no plan item in progress, and the synthesizer is not invoked while a    *)
(* researcher task is still under way.                                     *)
(***************************************************************************)
UnderWay(w) == {i \in Items : w[i] \in {"wait", "exec", "lock_ok", "lock_fail", "in_ok", "in_fail"}}

C26_ReturnsAfterEveryWorker ==
    /\ [][ResearchReturn =>
             /\ UnderWay(wpc) = {}
             /\ Running(session'.agent_progress) = {}
             /\ \A i \in Items : session'.plan[i] # "in_progress"]_vars
    /\ [](AfterResearch =>
             /\ UnderWay(wpc) = {}
             /\ sessionLock = {}
             /\ Running(session.agent_progress) = {}
             /\ \A i \in Items : session.plan[i] # "in_progress")
    /\ [][SynthesisBegin => UnderWay(wpc) = {} /\ UnderWay(wpc') = {}]_vars

\* The synthesizer runs after three researchers, which had to take turns
\* for the permits, are done.
C26_Witness ==
    /\ pc = "synth_exec"
    /\ Cardinality(Ran) = NItems
    /\ NItems > MaxParallelAgents
    /\ \A i \in Items : session.agent_progress[i].status \in {"completed", "failed"}

(***************************************************************************)
(* C27: the checkpoint task is created once the phase is researching, in   *)
(* memory and in the row, it is cancelled when run_research_phase returns  *)
(* or raises, and no checkpoint is written after that.                     *)
(***************************************************************************)
ResearchLeft == AfterResearch \/ pc = "research_raised"

C27_NoCheckpointAfterResearch ==
    /\ [][cpPc = "none" /\ cpPc' # "none" =>
             session'.phase = "researching" /\ Row'.phase = "researching"]_vars
    /\ [][ResearchReturn => ~checkpointTask' /\ cpPc' = "ended"]_vars
    /\ [][ResearchLeft => checkpoints' = checkpoints]_vars

\* What holds: the task is created in the researching phase and is cancelled
\* when run_research_phase is left; from then on the loop takes no step.
C27_TaskEndsWithResearch ==
    /\ [][cpPc = "none" /\ cpPc' # "none" =>
             session'.phase = "researching" /\ Row'.phase = "researching"]_vars
    /\ [][ResearchReturn => ~checkpointTask' /\ cpPc' = "ended"]_vars
    /\ [](ResearchLeft => ~checkpointTask /\ cpPc = "ended")
    /\ [](pc \in {"new", "started", "plan_exec", "plan_draft", "review", "confirmed"}
             => ~checkpointTask /\ cpPc = "none")

(***************************************************************************)
(* C28: once cancel() has returned, no further checkpoint of the session   *)
(* is saved and no further checkpoint_saved event published, whether the   *)
(* loop was asleep, about to save or about to publish.                     *)
(***************************************************************************)
C28_NothingSavedAfterCancel ==
    [][cancelled => checkpoints' = checkpoints /\ sessionEvents' = sessionEvents]_vars

\* What holds: after cancel() the loop takes no step, it hands no further
\* checkpoint to the connection and publishes no event, also when
\* run_research_phase creates the task after the call.
C28_LoopStopsAtCancel ==
    /\ [](cancelled => cpPc \in {"none", "ended"})
    /\ [][cancelled =>
             /\ sessionEvents' = sessionEvents
             /\ pendingSave' \in {pendingSave, NoCheckpoint}]_vars

(***************************************************************************)
(* C29: a save_checkpoint that raises inside the checkpoint loop is        *)
(* swallowed: the loop goes back to sleep and will attempt the next save,  *)
(* no checkpoint_saved event is published for the failed save, and the     *)
(* session, its row, the checkpoints, the researcher tasks and the         *)
(* position of run_research_phase are what they were.                      *)
(***************************************************************************)
CheckpointSavedEvents == {e \in sessionEvents : e.type = "checkpoint_saved"}

C29_FailedSaveIsSwallowed ==
    /\ [][CheckpointSaveFails =>
             /\ cpPc' = "sleep"
             /\ UNCHANGED <<pc, session, sessions, checkpoints, wpc, sessionLock,
                             checkpointTask, cancelled, sessionEvents, emitted>>]_vars
    /\ [](cpPc = "sleep" => ENABLED CheckpointWake)
    /\ [](Cardinality(CheckpointSavedEvents) <= Cardinality(CheckpointsOf(OrchId)))
    /\ [](pc = "fanout" /\ GatherDone(wpc) => ENABLED ResearchReturn)

\* A save has failed and the loop is in its next save.
C29_Witness ==
    /\ saveWarnings = MaxSaveWarnings
    /\ cpPc = "saving"
    /\ pc = "fanout"
    /\ CheckpointSavedEvents = {}

(***************************************************************************)
(* C30: the events of an item that is researched are one agent_started,    *)
(* then any number of agent_progress, then one agent_completed or          *)
(* agent_failed, and that last event is published only when the item's     *)
(* result is in the session's list and in the row.                         *)
(***************************************************************************)
TerminalEvents == {"agent_completed", "agent_failed"}

C30_EventsInOrder ==
    /\ [](\A i \in Items :
             /\ emitted[i] # "disorder"
             /\ wpc[i] \in {"none", "wait"} <=> emitted[i] = "none"
             /\ wpc[i] \in {"exec", "lock_ok", "lock_fail", "in_ok", "in_fail"}
                   => emitted[i] = "started"
             /\ wpc[i] \in {"done_ok", "done_fail"} => emitted[i] \in TerminalEvents)
    /\ [](AfterResearch =>
             \A i \in Items : emitted[i] \in (IF i \in Ran THEN TerminalEvents ELSE {"none"}))
    /\ [][\A i \in Items :
             emitted'[i] \in TerminalEvents /\ emitted[i] \notin TerminalEvents =>
                 /\ ResultCount(session.agent_results, i) = 1
                 /\ ResultCount(Row.agent_results_json, i) = 1]_vars
    /\ [][\A i \in Items : emitted[i] \in TerminalEvents => emitted'[i] = emitted[i]]_vars

\* One researcher has published progress and completed, another has
\* failed, and a skipped item has no event.
C30_Witness ==
    /\ pc = "researched"
    /\ \E i, j, k \in Items :
         /\ emitted[i] = "agent_completed"
         /\ emitted[j] = "agent_failed" /\ session.agent_progress[j].pct > 0
         /\ session.plan[k] = "skipped" /\ emitted[k] = "none"

(***************************************************************************)
(* C31: once the row of a session holds a non-empty final report, no       *)
(* later write removes or replaces it: not the write of a cancel request   *)
(* that read the session earlier, not the marking of a failure.            *)
(***************************************************************************)
HasReport(row) == row.final_report \notin {None, ""}

C31_FinalReportIsKept ==
    [][HasRow /\ HasReport(Row) => HasRow' /\ Row'.final_report = Row.final_report]_vars

\* What holds of the orchestrator's own writes and of the failure marking:
\* only the write of the cancel request takes a report out of the row.
C31_OnlyCancelDropsReport ==
    [][HasRow /\ HasReport(Row) /\ ~CancelWrite
          => HasRow' /\ Row'.final_report = Row.final_report]_vars

(***************************************************************************)
(* C32: the session restore_from_checkpoint returns for a session that is  *)
(* not terminal and has a checkpoint holds every result the row holds at   *)
(* that moment, also when the latest checkpoint is older than some of      *)
(* them; saving the restored session does not shorten the row's list.      *)
(***************************************************************************)
HoldsEvery(results, others) ==
    \A k \in 1..Len(others) : \E j \in 1..Len(results) : results[j] = others[k]

C32_RestoredHoldsRowResults ==
    [][ResumeSession /\ ~RowIsFinal(Row) /\ CheckpointsOf(OrchId) # {}
          => HoldsEvery(session'.agent_results, Row.agent_results_json)]_vars

(***************************************************************************)
(* C33: when a session interrupted during research is resumed and          *)
(* run_research_phase has run again, the session and its row hold exactly  *)
(* one result for every item that is not skipped; an item that already has *)
(* a result is not researched a second time.                               *)
(***************************************************************************)
Resumed == restored # NotCalled

C33_ResumedResearchCompletes ==
    /\ [](Resumed /\ pc = "researched" /\ Row.phase = "researching" =>
             /\ OneResultPerItem(session.plan, session.agent_results)
             /\ OneResultPerItem(session.plan, Row.agent_results_json))
    /\ [][\A i \in Items :
             Resumed /\ WorkerStart(i) => ResultCount(session.agent_results, i) = 0]_vars

\* What holds: the resumed run researches no item that has a result in the
\* restored session.
C33_NoSecondExecution ==
    [][\A i \in Items :
          Resumed /\ WorkerStart(i) => ResultCount(session.agent_results, i) = 0]_vars

(***************************************************************************)
(* C34: in the durable row and in every saved checkpoint, an item recorded *)
(* as completed or failed has its result in the same snapshot.             *)
(***************************************************************************)
FinishedWithResult(plan, results) ==
    \A i \in Items : plan[i] \in {"completed", "failed"} => ResultCount(results, i) >= 1

C34_StatusAndResultTogether ==
    /\ HasRow => FinishedWithResult(Row.plan_json, Row.agent_results_json)
    /\ \A k \in 1..Len(checkpoints) :
          FinishedWithResult(checkpoints[k].checkpoint_json.plan,
                             checkpoints[k].checkpoint_json.agent_results)

\* What holds: once the research phase has returned, the row is consistent.
C34_RowConsistentAfterResearch ==
    pc = "researched"
        => FinishedWithResult(Row.plan_json, Row.agent_results_json)

(***************************************************************************)
(* C35: if the store write inside a worker's success-path critical section *)
(* fails after the result was appended in memory, the session ends the     *)
(* research phase with exactly one result for that item.                   *)
(***************************************************************************)
C35_OneResultAfterFailedWrite ==
    pc = "researched" =>
        \A i \in Items :
            wpc[i] \in {"done_ok", "done_fail"}
                => ResultCount(session.agent_results, i) = 1

\* What holds: no item ends with more than two results, and an item whose
\* writes all succeeded ends with one.
C35_AtMostTwoResults ==
    pc = "researched" =>
        \A i \in Items :
            /\ ResultCount(session.agent_results, i) <= 2
            /\ wpc[i] = "done_ok" => ResultCount(session.agent_results, i) = 1

(***************************************************************************)
(* C36: the critical section is exclusive per session also across          *)
(* orchestrator instances: while the workflow started by confirm runs, the *)
(* whole-row write of a workflow started by a resume request overwrites no *)
(* result the first one has persisted.                                     *)
(***************************************************************************)
C36_ResumedWriteKeepsResults ==
    [][ResumedResearchBegin /\ pc = "fanout"
          => Extends(Row'.agent_results_json, Row.agent_results_json)]_vars

\* What holds: the writes of the workers of one orchestrator only extend the
\* row's result list while no session was restored.
C36_OneOrchestratorExtends ==
    [][(\E i \in Items : WorkerCommit(i)) /\ ~Resumed
          => Extends(Row'.agent_results_json, Row.agent_results_json)]_vars

(***************************************************************************)
(* C37: when two consumers are attached to the stream of one session, the  *)
(* close_session_stream of one of them leaves the session's queue in       *)
(* place, so that events published afterwards still reach the other.       *)
(***************************************************************************)
C37_CloseKeepsSharedStream ==
    [][\A s \in SessionIds :
          CloseSessionStream(s) /\ s \in sharedStreams
              => s \in DOMAIN sessionQueues']_vars

\* What holds: a second create_session_stream leaves the queue and what it
\* holds as they are, and both consumers read the one queue.
C37_SecondCreateKeepsQueue ==
    [][\A s \in SessionIds :
          CreateSessionStream(s) /\ s \in DOMAIN sessionQueues
              => sessionQueues' = sessionQueues]_vars

PublishesPhaseChange ==
    \/ PlanningBegin
    \/ Replan
    \/ PlanningToReview
    \/ ResearchBegin
    \/ SynthesisBegin
    \/ SynthesisOk

FirstPhaseEvent ==
    /\ phaseEvent = NoPhaseEvent
    /\ pc = "started"
    /\ phaseEvent' = [old_phase |-> None, new_phase |-> "planning"]

C39_PhaseEventMatchesTransition ==
    [][PublishesPhaseChange =>
          \/ FirstPhaseEvent
          \/ /\ phaseEvent'.old_phase = session.phase
             /\ phaseEvent'.new_phase = session'.phase
             /\ session'.phase # session.phase]_vars

\* What holds: the new phase of every event is the phase the session holds
\* when it is published, and no other step publishes a phase_change.
C39_NewPhaseIsRight ==
    [][/\ PublishesPhaseChange => phaseEvent'.new_phase = session'.phase
       /\ phaseEvent' # phaseEvent => PublishesPhaseChange \/ Interrupt]_vars

(***************************************************************************)
(* C40: calling one unsubscribe function removes only the subscription it  *)
(* was returned for: while an unsubscribe function has not been called,    *)
(* its handler is called for every event of its type and scope, whatever   *)
(* other unsubscribe function of the same handler was called.              *)
(***************************************************************************)
\* The live function `f` stands for a subscription to event e.
Covers(f, e) ==
    /\ f[2] \in {Global, e.session_id}
    /\ f[3] \in {"all", e.event_type}

C40_LiveSubscriptionReceives ==
    \A f \in handles : \A e \in ListenedEvents :
        Covers(f, e) => <<f[2], f[4]>> \in CollectHandlers(e)

\* What holds: the handler of the function called is no longer registered
\* for the function's event type and scope.
C40_UnsubscribeRemovesOwn ==
    [][\A t \in EventTypes, h \in StreamHandlers, s \in Scopes :
          CallUnsubscribe(t, h, s) => ~Registered(s, t, h)']_vars
====
